---- MODULE Spec2Model ----
(***************************************************************************)
(* Model of the participant actor and of the session-cookie pool of the    *)
(* browser simulator.                                                      *)
(*                                                                         *)
(*   - the cookie pool: HyperSessionCookieManger / BorrowedCookie          *)
(*     (src/src/browser/auth.rs) and the wrapping of a query's cookie      *)
(*     (src/browser/src/participant/transport_data.rs);                    *)
(*   - the participant actor: Participant (participant/mod.rs),            *)
(*     ParticipantInner (participant/inner.rs) and ParticipantInnerLite    *)
(*     (participant/inner_lite.rs);                                        *)
(*   - the orchestrator: its configuration (orchestrator/src/config.rs),   *)
(*     main and run (orchestrator/src/main.rs, runner.rs) and the          *)
(*     connection url of a participant (transport_data.rs,                 *)
(*     http/src/participant.rs).                                           *)
(***************************************************************************)
EXTENDS Integers, Sequences, FiniteSets, TLC

\* ------------------------------------------------------------------------
\* Bounds of the model (not program constants)
\* ------------------------------------------------------------------------

\* number of fresh session tokens the server mints in one run
MaxFresh == 2
\* number of cookies found in the stash file at start
MaxStashed == 1
\* length up to which a domain queue is allowed to grow
MaxPoolQueue == 3

\* ------------------------------------------------------------------------
\* Values
\* ------------------------------------------------------------------------

None == "None"

\* Origins (base urls), as label sequences.  The first is matched by the persistence
\* allow-list, the second is a throwaway server.
MeetHost == <<"https", "meet", "hyper", "video">>
DevHost == <<"http", "localhost">>
Domains == {MeetHost, DevHost}

Usernames == {"alice", "bob"}

\* generate_random_name(): the name of a participant spawned without cookie
GeneratedName == "goblin"

\* Holders of a BorrowedCookie other than the modelled actor: other
\* participants, orchestrator tasks, connection handlers.
ExtHolders == {"h1", "h2"}
ActorHolder == "actor"
Holders == ExtHolders \cup {ActorHolder}

\* HyperSessionCookie {domain, username, cookie}; the timestamps are never
\* read by the pool and are left out.
HyperSessionCookie(d, u, t) == [domain |-> d, username |-> u, cookie |-> t]

\* Option::None of a domain and of a cookie
NoDomain == <<>>
NoCookie == HyperSessionCookie(NoDomain, "", 0)

\* The cookies a stash file written by earlier runs holds, oldest first.
StashedCookie(i) == HyperSessionCookie(MeetHost, IF i = 1 THEN "alice" ELSE "bob", i)

VARIABLES
    available_cookies,  \* HashMap<Domain, VecDeque<HyperSessionCookie>>
    borrows,            \* the live BorrowedCookie values, by holder
    stash,              \* the cookies persisted in the stash file
    nextToken,          \* next session token the guest endpoint mints
    lastCall            \* the latest call of the actor's task on the manager

poolVars == <<available_cookies, borrows, stash, nextToken, lastCall>>

\* ------------------------------------------------------------------------
\* VecDeque / HashMap primitives
\* ------------------------------------------------------------------------

\* VecDeque::pop_back
pop_back(q) == IF q = <<>> THEN [item |-> NoCookie, rest |-> q]
               ELSE [item |-> q[Len(q)], rest |-> SubSeq(q, 1, Len(q) - 1)]

\* VecDeque::pop_front
pop_front(q) == IF q = <<>> THEN [item |-> NoCookie, rest |-> q]
                ELSE [item |-> Head(q), rest |-> Tail(q)]

push_back(q, c) == Append(q, c)

\* HashMap::entry(domain).or_default()
entry_or_default(m, d) == IF d \in DOMAIN m THEN m ELSE m @@ (d :> <<>>)

\* The cookies queued for a domain; an absent key holds nothing.
Contents(m, d) == IF d \in DOMAIN m THEN m[d] ELSE <<>>

\* BorrowedCookie::new(domain, cookie, manager)
BorrowedCookie(d, c) == [domain |-> d, cookie |-> c]
NoBorrow == [domain |-> NoDomain, cookie |-> NoCookie]

\* give_cookie: pop the front of the domain's queue (creating the queue
\* when the key is absent) and wrap it as a borrow.
give_cookie(m, d) ==
    LET m1 == entry_or_default(m, d)
        p == pop_front(m1[d])
    IN [pool |-> [m1 EXCEPT ![d] = p.rest],
        borrow |-> IF p.item = NoCookie THEN NoBorrow ELSE BorrowedCookie(d, p.item)]

\* The returned cookie is not put back.
return_cookie_lost(m, d, c) == entry_or_default(m, d)

\* return_cookie: push to the back of the domain's queue.
return_cookie(m, d, c) ==
    LET m1 == entry_or_default(m, d)
    IN [m1 EXCEPT ![d] = push_back(@, c)]

\* Drop for BorrowedCookie
drop_borrow(m, b) == return_cookie(m, b.domain, b.cookie)

\* ------------------------------------------------------------------------
\* Persistence
\* ------------------------------------------------------------------------

PERSISTENCE_WHITELIST == {<<"latest", "dev", "hyper", "video">>,
                          <<"staging", "hyper", "video">>,
                          <<"meet", "hyper", "video">>}

\* str::contains on label sequences
contains(s, w) ==
    \E i \in 0..(Len(s) - Len(w)) : \A k \in 1..Len(w) : s[i + k] = w[k]

\* Whether a domain has an entry of the whitelist as a substring
Whitelisted(d) == \E w \in PERSISTENCE_WHITELIST : contains(d, w)

\* The stash is saved as it is.
with_all_domains(cookies) == cookies

\* HyperSessionCookieStash::with_whitelisted_domains
with_whitelisted_domains(cookies) ==
    LET keep == {d \in DOMAIN cookies : \E w \in PERSISTENCE_WHITELIST : contains(d, w)}
    IN [d \in keep |-> cookies[d]]

\* stash.cookies.entry(base_url).or_default().push(cookie); stash.save()
save_new_cookie(cookies, d, c) ==
    LET m1 == entry_or_default(cookies, d)
    IN with_whitelisted_domains([m1 EXCEPT ![d] = Append(@, c)])

\* From<HyperSessionCookieStash> for HyperSessionCookieManger
manager_from_stash(cookies) == cookies

\* ------------------------------------------------------------------------
\* The cookie manager: operations
\* ------------------------------------------------------------------------

\* Session tokens 1..MaxStashed belong to cookies of earlier runs; the guest
\* endpoint mints the following ones.
FirstFreshToken == MaxStashed + 1

Stashed(n) == IF n = 0 THEN <<>> ELSE (MeetHost :> [i \in 1..n |-> StashedCookie(i)])

\* The cookies a connection request can carry: those of the controllers'
\* stash.
QueryCookies == {StashedCookie(i) : i \in 1..MaxStashed}

Call(op, d, b) == [op |-> op, domain |-> d, borrow |-> b]

\* number of borrows alive for a domain
HeldFor(d) == Cardinality({h \in Holders : borrows[h].domain = d})

\* ParticipantStore::new / orchestrator run: the manager is built from the
\* stash file.
PoolInit ==
    /\ \E n \in 0..MaxStashed :
          /\ stash = Stashed(n)
          /\ available_cookies = manager_from_stash(Stashed(n))
    /\ borrows = [h \in Holders |-> NoBorrow]
    /\ nextToken = FirstFreshToken
    /\ lastCall = Call(None, NoDomain, NoBorrow)

\* HyperSessionCookieManger::give_cookie(domain), the result kept by h
GiveCookie(h, d) ==
    /\ borrows[h] = NoBorrow
    /\ LET r == give_cookie(available_cookies, d)
       IN /\ available_cookies' = r.pool
          /\ borrows' = [borrows EXCEPT ![h] = r.borrow]
    /\ UNCHANGED <<stash, nextToken, lastCall>>

\* HyperSessionCookieManger::fetch_new_cookie(base_url, username), the
\* result kept by h
FetchNewCookie(h, d, u) ==
    /\ borrows[h] = NoBorrow
    /\ nextToken < FirstFreshToken + MaxFresh
    /\ LET c == HyperSessionCookie(d, u, nextToken)
       IN /\ stash' = save_new_cookie(stash, d, c)
          /\ borrows' = [borrows EXCEPT ![h] = BorrowedCookie(d, c)]
    /\ nextToken' = nextToken + 1
    /\ UNCHANGED <<available_cookies, lastCall>>

\* ParticipantConfigQuery::into_config_and_cookie: the cookie of the query
\* is wrapped as a borrow of the given manager.
into_config_and_cookie(c) == IF c = NoCookie THEN NoBorrow ELSE BorrowedCookie(c.domain, c)

WrapQueryCookie(h, c) ==
    /\ borrows[h] = NoBorrow
    /\ Len(Contents(available_cookies, c.domain)) + HeldFor(c.domain) < MaxPoolQueue
    /\ borrows' = [borrows EXCEPT ![h] = into_config_and_cookie(c)]
    /\ UNCHANGED <<available_cookies, stash, nextToken, lastCall>>

\* Drop for BorrowedCookie, of the borrow kept by h
DropBorrow(h) ==
    /\ borrows[h] # NoBorrow
    /\ available_cookies' = drop_borrow(available_cookies, borrows[h])
    /\ borrows' = [borrows EXCEPT ![h] = NoBorrow]
    /\ UNCHANGED <<stash, nextToken, lastCall>>

\* ------------------------------------------------------------------------
\* The participant actor: values
\* ------------------------------------------------------------------------

\* number of handle clones alive at once
MaxHandles == 2
\* number of commands waiting in the actor's queue
MaxQueue == 2

\* create_page_retry retries while attempt < MaxRetries
MaxRetries == 5

\* Samples of the setting enums (the first of each is the default)
NoiseSuppressions == {"Disabled", "RNNoise"}
WebcamResolutions == {"Auto", "P720"}
TransportModes == {"WebTransport", "WebRTC"}

\* ParticipantConfig: frontend kind and the embedded application config
ParticipantConfig(l, a, ns) ==
    [lite |-> l, username |-> "", base_url |-> MeetHost,
     audio_enabled |-> a, video_enabled |-> TRUE,
     screenshare_enabled |-> FALSE, noise_suppression |-> ns,
     transport |-> "WebTransport", resolution |-> "Auto", blur |-> FALSE]

\* The configurations participants are spawned with: either frontend, the
\* microphone off and a noise suppression chosen
Configs == {ParticipantConfig(l, FALSE, "RNNoise") : l \in BOOLEAN}

NoConfig == ParticipantConfig(FALSE, TRUE, "Disabled")

\* ParticipantState::default()
DefaultState ==
    [username |-> "", running |-> FALSE, joined |-> FALSE, muted |-> FALSE,
     video_activated |-> FALSE, noise_suppression |-> "Disabled",
     transport_mode |-> "WebTransport", webcam_resolution |-> "Auto",
     background_blur |-> FALSE, screenshare_activated |-> FALSE]

\* What the controls of the page show: the values a probe of the page
\* returns.  The page a browser opens on the session URL is in the lobby.
LobbyPage ==
    [joined |-> FALSE, muted |-> FALSE, video_activated |-> TRUE,
     screenshare_activated |-> FALSE, noise_suppression |-> "Disabled",
     force_webrtc |-> FALSE, webcam_resolution |-> "Auto",
     background_blur |-> FALSE]

\* ParticipantMessage
Msg(k, v) == [kind |-> k, value |-> v]
ParticipantMessage ==
    {Msg(k, None) : k \in {"Join", "Leave", "Close", "ToggleAudio", "ToggleVideo",
                           "ToggleScreenshare", "ToggleBackgroundBlur"}}
    \cup {Msg("SetNoiseSuppression", v) : v \in NoiseSuppressions}
    \cup {Msg("SetWebcamResolutions", v) : v \in WebcamResolutions}

NoMsg == Msg(None, None)

\* The commands the controllers send through Participant::join and
\* Participant::send_message
SentMessages == {Msg("Join", None), Msg("Leave", None), Msg("ToggleAudio", None)}

VARIABLES
    pc,                 \* position of the actor's task
    participant_config, \* the ParticipantConfig the actor was spawned with
    attempt,            \* create_page_retry: retries made
    state,              \* the published ParticipantState (watch channel)
    page,               \* what the page's controls show
    browser,            \* TRUE while the browser process is alive
    pump,               \* the browser event task: "none", "running", "done"
    detached,           \* a detached event waits in the listener
    queue,              \* the command channel, oldest first
    cur,                \* the command being handled
    joinCtx,            \* who called join(): "initial", "command"; "already_joined"
                        \* when the join() of a command returned at its check
    exit,               \* how the actor's run ended
    handles,            \* number of live clones of the Participant handle
    closers,            \* clones inside Participant::close, awaiting running=false
    refreshed,          \* no dequeued command still waits for its state refresh
    writes,             \* the values written to state.running, in order
    ops                 \* browser calls made while handling the current command

actorVars == <<pc, participant_config, attempt, state, page, browser, pump, detached,
               queue, cur, joinCtx, exit, handles, closers, refreshed, writes, ops>>

VARIABLES
    orch_config,         \* the OrchestratorConfig the orchestrator was started with
    effective,           \* the latest EffectiveParticipantConfig resolved, with its index
    received,            \* the latest outcome of decoding a connection url on a worker
    rpc,                 \* position of the orchestrator process in main and run
    elapsed_seconds,     \* run: start_time.elapsed().as_secs() read by the current tick
    idx,                 \* run: the index the scan of the current tick is at
    joined_participants, \* run: the indices started so far, in order
    tasks,               \* run: the state of the task spawned for each index
    started_at,          \* for each index, the reading of the tick that started it
    recv_tasks,          \* run: for each index, the task reading its connection
    guard_captured       \* run: the build moved cookie_guard into the task's future

orchVars == <<orch_config, effective, received, rpc, elapsed_seconds, idx, joined_participants,
              tasks, started_at, recv_tasks, guard_captured>>

VARIABLES
    wpc,            \* position of the worker in handle_socket and handle_socket_inner
    wreason,        \* what made the worker leave its loop
    incoming,       \* frames of the client the worker has not read yet, oldest first
    outgoing,       \* frames of the worker the client has not read yet, oldest first
    unseen,         \* the worker's watch receiver rx has a version it has not seen
    logs,           \* the levels of the messages in the actor's log channel
    last_sent,      \* the ParticipantState of the latest response frame sent
    chandle,        \* the client's Participant handle of the remote participant
    clink,          \* the client's receive task of the connection
    client_state    \* the snapshot published by the client's receive task

connVars == <<wpc, wreason, incoming, outgoing, unseen, logs, last_sent, chandle, clink,
              client_state>>

VARIABLES
    res,            \* a WebcamResolution being stepped with next and previous
    toggles         \* the steps made on it, in order

toggleVars == <<res, toggles>>

VARIABLES
    participants,   \* the Participants spawned through the store, oldest first
    store_inner,    \* ParticipantStore.inner: the participant kept under each name
    removers        \* the close-then-remove task started for each participant

storeVars == <<participants, store_inner, removers>>

VARIABLES
    fetchers        \* the fetch_new_cookie call of each holder: where it is, what it holds

fetchVars == <<fetchers>>

VARIABLES
    cborrow,        \* the BorrowedCookie the future of spawn_remote owns on the client
    cpool           \* the cookies the client's manager has available

remoteVars == <<cborrow, cpool>>

\* The variables outside a participant, its pool, its orchestrator and its
\* connection
auxVars == <<toggleVars, storeVars, fetchVars, remoteVars>>

vars == <<poolVars, actorVars, orchVars, connVars, auxVars>>

\* Positions inside ParticipantInner::handle_actions
JoinPcs == {"join_set_cookie", "join_goto", "join_name", "join_wait_button",
            "join_settings", "join_click", "join_wait_marker", "join_settings_lite",
            "join_update"}
ClosePcs == {"close_leave", "close_page", "close_browser", "close_wait"}
\* Positions of the loop of handle_actions, where the detached listener exists
LoopPcs == ClosePcs \cup {"wait", "handle", "refresh", "kill_detached"}
HandleActionsPcs == JoinPcs \cup LoopPcs \cup {"kill_join_failed"}
\* Positions of ParticipantInner::run before handle_actions
LaunchPcs == {"start", "launch", "page"}
\* Positions at which the task has ended
EndedPcs == {"done", "failed", "cancelled"}

ActorInit ==
    /\ pc = "unspawned"
    /\ participant_config = NoConfig
    /\ attempt = 0
    /\ state = DefaultState
    /\ page = LobbyPage
    /\ browser = FALSE
    /\ pump = "none"
    /\ detached = FALSE
    /\ queue = <<>>
    /\ cur = NoMsg
    /\ joinCtx = None
    /\ exit = None
    /\ handles = 0
    /\ closers = 0
    /\ refreshed = TRUE
    /\ writes = <<>>
    /\ ops = {}

\* The orchestrator fields of a process that is not the orchestrator
OrchIdle ==
    /\ orch_config = None
    /\ effective = <<>>
    /\ received = <<>>
    /\ rpc = "idle"
    /\ elapsed_seconds = 0
    /\ idx = 0
    /\ joined_participants = <<>>
    /\ tasks = <<>>
    /\ started_at = <<>>
    /\ recv_tasks = <<>>
    /\ guard_captured = TRUE

\* The connection fields of a process that serves no connection
ConnIdle ==
    /\ wpc = "none"
    /\ wreason = None
    /\ incoming = <<>>
    /\ outgoing = <<>>
    /\ unseen = FALSE
    /\ logs = <<>>
    /\ last_sent = <<>>
    /\ chandle = "none"
    /\ clink = "none"
    /\ client_state = DefaultState

\* No resolution is being stepped
ToggleIdle ==
    /\ res = "Auto"
    /\ toggles = <<>>

\* participants spawned through a store
MaxParticipants == 2

\* generate_random_name() of each spawn: three random words, taken to differ
\* from one spawn to the next
generate_random_name(k) == <<"goblin", "gnome", "troll">>[k]

\* The keys a store can hold
StoreNames == Usernames \cup {generate_random_name(k) : k \in 1..MaxParticipants}

\* The BorrowedCookie of participant k
StoreHolders == <<"h1", "h2", "actor">>

NoRemover == [stage |-> "none", name |-> "", removed |-> 0]

\* ParticipantStore::new: no participant
StoreIdle ==
    /\ participants = <<>>
    /\ store_inner = [n \in StoreNames |-> 0]
    /\ removers = [k \in 1..MaxParticipants |-> NoRemover]

NoFetch == [stage |-> "idle", cookie |-> NoCookie, loaded |-> <<>>]

\* No fetch_new_cookie is being made
FetchIdle == fetchers = [h \in ExtHolders |-> NoFetch]

\* No remote participant has been spawned by the client
RemoteIdle ==
    /\ cborrow = NoCookie
    /\ cpool = <<>>

AuxIdle == ToggleIdle /\ StoreIdle /\ FetchIdle /\ RemoteIdle

Init == PoolInit /\ ActorInit /\ OrchIdle /\ ConnIdle /\ AuxIdle

\* ------------------------------------------------------------------------
\* The participant actor: spawn and run
\* ------------------------------------------------------------------------

ActorBorrow == borrows[ActorHolder]

\* The BorrowedCookie the task owns is dropped.
ReturnActorCookie ==
    IF ActorBorrow = NoBorrow
    THEN UNCHANGED <<available_cookies, borrows, lastCall>>
    ELSE /\ available_cookies' = drop_borrow(available_cookies, ActorBorrow)
         /\ borrows' = [borrows EXCEPT ![ActorHolder] = NoBorrow]
         /\ lastCall' = Call("drop", ActorBorrow.domain, ActorBorrow)

\* ParticipantInner owns the cookie as `auth` and drops it when
\* handle_actions returns; ParticipantInnerLite never takes it, the task
\* keeps it until it ends.
ReturnAuthOnExit ==
    IF participant_config.lite
    THEN UNCHANGED <<available_cookies, borrows, lastCall>>
    ELSE ReturnActorCookie

\* The position a task takes after with_participant_config: run first awaits
\* fetch_new_cookie when it got no cookie, create_browser otherwise.
FirstPc(cfg, b) == IF ~cfg.lite /\ b = NoBorrow THEN "start" ELSE "launch"

Spawned(cfg, b, d, u) ==
    /\ participant_config' = [cfg EXCEPT !.base_url = d, !.username = u]
    /\ pc' = FirstPc(cfg, b)
    /\ handles' = 1
    /\ UNCHANGED <<attempt, state, page, browser, pump, detached, queue, cur, joinCtx,
                   exit, closers, refreshed, writes, ops>>

\* Participant::spawn_with_app_config_and_receiver
SpawnLocal(cfg, d) ==
    /\ pc = "unspawned"
    /\ LET r == give_cookie(available_cookies, d)
       IN /\ available_cookies' = r.pool
          /\ borrows' = [borrows EXCEPT ![ActorHolder] = r.borrow]
          /\ lastCall' = Call("give_cookie", d, r.borrow)
          /\ Spawned(cfg, r.borrow, d,
                     IF r.borrow = NoBorrow THEN GeneratedName
                     ELSE r.borrow.cookie.username)
    /\ UNCHANGED <<stash, nextToken>>

\* handle_socket_inner: the actor of a connection is spawned with the cookie
\* of the query; a query without a cookie ends the connection with the error
\* "Cannot connect to session without a cookie" and nothing is spawned.
SpawnWorker(cfg, c) ==
    /\ pc = "unspawned"
    /\ IF into_config_and_cookie(c) = NoBorrow
       THEN /\ pc' = "rejected"
            /\ exit' = "no_cookie"
            /\ UNCHANGED <<borrows, lastCall, participant_config, handles, attempt, state,
                           page, browser, pump, detached, queue, cur, joinCtx, closers,
                           refreshed, writes, ops>>
       ELSE /\ Len(Contents(available_cookies, c.domain)) + HeldFor(c.domain) < MaxPoolQueue
            /\ borrows' = [borrows EXCEPT ![ActorHolder] = into_config_and_cookie(c)]
            /\ lastCall' = Call("into_config_and_cookie", c.domain,
                                into_config_and_cookie(c))
            /\ Spawned(cfg, into_config_and_cookie(c), c.domain, c.username)
    /\ UNCHANGED <<available_cookies, stash, nextToken>>

\* ParticipantInner::run returns an error: the task logs it and ends.
RunFails(kind) ==
    /\ pc' = "failed"
    /\ exit' = kind
    /\ ReturnActorCookie

\* ParticipantInner::run, `cookie` is None: fetch_new_cookie
RunAuth ==
    /\ pc = "start"
    /\ \/ /\ nextToken < FirstFreshToken + MaxFresh
          /\ LET c == HyperSessionCookie(participant_config.base_url,
                                         participant_config.username, nextToken)
                 b == BorrowedCookie(participant_config.base_url, c)
             IN /\ stash' = save_new_cookie(stash, participant_config.base_url, c)
                /\ borrows' = [borrows EXCEPT ![ActorHolder] = b]
                /\ lastCall' = Call("fetch_new_cookie", participant_config.base_url, b)
          /\ nextToken' = nextToken + 1
          /\ pc' = "launch"
          /\ UNCHANGED <<available_cookies, exit>>
       \/ /\ RunFails("auth_failed")
          /\ UNCHANGED <<stash, nextToken>>
    /\ UNCHANGED <<participant_config, attempt, state, page, browser, pump, detached,
                   queue, cur, joinCtx, handles, closers, refreshed,
                   writes, ops>>

\* create_browser and drive_browser_events
CreateBrowser ==
    /\ pc = "launch"
    /\ \/ /\ browser' = TRUE
          /\ pump' = "running"
          /\ page' = LobbyPage
          /\ pc' = "page"
          /\ UNCHANGED <<poolVars, exit>>
       \/ /\ RunFails("launch_failed")
          /\ UNCHANGED <<stash, nextToken, browser, pump, page>>
    /\ UNCHANGED <<participant_config, attempt, state, detached, queue, cur, joinCtx,
                   handles, closers, refreshed, writes, ops>>

\* The first await of join(), called with joined = false
JoinEntry(cfg) == IF cfg.lite THEN "join_goto" ELSE "join_set_cookie"

\* create_page_retry retrying once more than `attempt < 5` allows
retry_page_once_more(n) == n <= MaxRetries

\* create_page_retry: whether a failed attempt is retried
retry_page(n) == n < MaxRetries

\* state.send_modify(|state| state.running = value)
set_running(st, value) == [st EXCEPT !.running = value]

\* What has been published when handle_actions calls join(): the lite run
\* publishes the username, handle_actions publishes running = true.
handle_actions_start_unpublished(st, cfg) ==
    IF cfg.lite THEN [st EXCEPT !.username = cfg.username] ELSE st

handle_actions_start(st, cfg) ==
    set_running(IF cfg.lite THEN [st EXCEPT !.username = cfg.username] ELSE st, TRUE)

\* One attempt of create_page_retry.  On success run goes on into
\* handle_actions, which publishes running = true and calls join().
CreatePage ==
    /\ pc = "page"
    /\ \/ /\ state' = handle_actions_start(state, participant_config)
          /\ writes' = Append(writes, TRUE)
          /\ joinCtx' = "initial"
          /\ pc' = JoinEntry(participant_config)
          /\ attempt' = 0
          /\ UNCHANGED <<poolVars, exit, browser>>
       \/ /\ retry_page(attempt)
          /\ attempt' = attempt + 1
          /\ UNCHANGED <<poolVars, pc, state, writes, joinCtx, exit, browser>>
       \/ /\ ~retry_page(attempt)
          /\ RunFails("page_failed")
          /\ browser' = FALSE
          /\ attempt' = 0
          /\ UNCHANGED <<stash, nextToken, state, writes, joinCtx>>
    /\ UNCHANGED <<participant_config, page, pump, detached, queue, cur, handles,
                   closers, refreshed, ops>>

\* ------------------------------------------------------------------------
\* The participant actor: join
\* ------------------------------------------------------------------------

\* update_state: the snapshot is re-derived from the page's controls.
\* ParticipantInner probes every setting; ParticipantInnerLite probes the
\* core controls and publishes defaults for the others.
update_state(st, pg, lite) ==
    IF lite
    THEN [st EXCEPT !.joined = pg.joined, !.muted = pg.muted,
                    !.video_activated = pg.video_activated,
                    !.screenshare_activated = pg.screenshare_activated,
                    !.transport_mode = "WebTransport",
                    !.webcam_resolution = "Auto",
                    !.noise_suppression = "Disabled",
                    !.background_blur = FALSE]
    ELSE [st EXCEPT !.joined = pg.joined, !.muted = pg.muted,
                    !.video_activated = pg.video_activated,
                    !.transport_mode = IF pg.force_webrtc THEN "WebRTC" ELSE "WebTransport",
                    !.webcam_resolution = pg.webcam_resolution,
                    !.noise_suppression = pg.noise_suppression,
                    !.background_blur = pg.background_blur]

\* apply_all_settings of ParticipantInner: the setters, then the toggles
apply_all_settings(pg, cfg) ==
    [pg EXCEPT !.noise_suppression = cfg.noise_suppression,
               !.background_blur = cfg.blur,
               !.webcam_resolution = cfg.resolution,
               !.force_webrtc = (cfg.transport = "WebRTC"),
               !.muted = IF cfg.audio_enabled THEN @ ELSE ~@,
               !.video_activated = IF cfg.video_enabled THEN @ ELSE ~@]

\* apply_all_settings of ParticipantInnerLite: the toggles only
apply_all_settings_lite(pg, cfg) ==
    [pg EXCEPT !.muted = IF cfg.audio_enabled THEN @ ELSE ~@,
               !.video_activated = IF cfg.video_enabled THEN @ ELSE ~@,
               !.screenshare_activated = IF cfg.screenshare_enabled THEN ~@ ELSE @]

\* join() with the settings of either frontend applied in the lobby
NextJoinPc_lobby_settings(p, lite) ==
    CASE p = "join_set_cookie" -> "join_goto"
      [] p = "join_goto" -> IF lite THEN "join_wait_button" ELSE "join_name"
      [] p = "join_name" -> "join_wait_button"
      [] p = "join_wait_button" -> IF lite THEN "join_settings_lite" ELSE "join_settings"
      [] p = "join_settings" -> "join_click"
      [] p = "join_settings_lite" -> "join_click"
      [] p = "join_click" -> "join_wait_marker"
      [] p = "join_wait_marker" -> "join_update"

\* The await that follows each await of join()
NextJoinPc(p, lite) ==
    CASE p = "join_set_cookie" -> "join_goto"
      [] p = "join_goto" -> IF lite THEN "join_wait_button" ELSE "join_name"
      [] p = "join_name" -> "join_wait_button"
      [] p = "join_wait_button" -> IF lite THEN "join_click" ELSE "join_settings"
      [] p = "join_settings" -> "join_click"
      [] p = "join_click" -> "join_wait_marker"
      [] p = "join_wait_marker" -> IF lite THEN "join_settings_lite" ELSE "join_update"
      [] p = "join_settings_lite" -> "join_update"

\* What a step of join() does to the page when it succeeds
JoinPageEffect(p, pg, cfg) ==
    CASE p = "join_goto" -> [pg EXCEPT !.joined = FALSE]
      [] p = "join_settings" -> apply_all_settings(pg, cfg)
      [] p = "join_click" -> [pg EXCEPT !.joined = TRUE]
      [] p = "join_settings_lite" -> apply_all_settings_lite(pg, cfg)
      [] OTHER -> pg

\* The browser call a step of join() makes
JoinOp(p) ==
    CASE p = "join_set_cookie" -> {"set_cookie"}
      [] p = "join_goto" -> {"goto"}
      [] p = "join_click" -> {"click"}
      [] OTHER -> {}

\* Steps of join() whose error is logged and not returned
JoinAbsorbs(p) == p \in {"join_settings", "join_settings_lite"}

\* An error of join() that is logged like that of a Join command, also for
\* the join() handle_actions starts with
join_failed_pc_logged(ctx) == "refresh"

\* Where an error returned by join() leads: handle_actions kills the browser
\* and returns when it was its initial join, the loop logs the error of a
\* Join command and goes on to the state refresh
join_failed_pc(ctx) == IF ctx = "initial" THEN "kill_join_failed" ELSE "refresh"

\* One await of join() other than the final update_state.  An error ends
\* join(): the initial join goes on to kill the browser, a Join command is
\* logged and followed by the state refresh.
JoinStep ==
    /\ pc \in JoinPcs \ {"join_update"}
    /\ \/ /\ pc = "join_wait_marker" => page.joined
          /\ page' = JoinPageEffect(pc, page, participant_config)
          /\ ops' = ops \cup JoinOp(pc)
          /\ pc' = NextJoinPc(pc, participant_config.lite)
       \/ /\ JoinAbsorbs(pc)
          /\ pc' = NextJoinPc(pc, participant_config.lite)
          /\ UNCHANGED <<page, ops>>
       \/ /\ ~JoinAbsorbs(pc)
          /\ pc' = join_failed_pc(joinCtx)
          /\ UNCHANGED <<page, ops>>
    /\ UNCHANGED <<poolVars, participant_config, attempt, state, browser, pump, detached,
                   queue, cur, joinCtx, exit, handles, closers, refreshed,
                   writes>>

\* The update_state that ends a successful join().  The initial join is
\* followed by the loop, a Join command by the state refresh.
JoinUpdate ==
    /\ pc = "join_update"
    /\ state' = update_state(state, page, participant_config.lite)
    /\ pc' = IF joinCtx = "initial" THEN "wait" ELSE "refresh"
    /\ joinCtx' = IF joinCtx = "initial" THEN None ELSE joinCtx
    /\ ops' = IF joinCtx = "initial" THEN {} ELSE ops
    /\ UNCHANGED <<poolVars, participant_config, attempt, page, browser, pump, detached,
                   queue, cur, exit, handles, closers, refreshed,
                   writes>>

\* handle_actions returns: what its last statements publish
LeaveHandleActions(kind) ==
    /\ state' = set_running(state, FALSE)
    /\ writes' = Append(writes, FALSE)
    /\ exit' = kind
    /\ pc' = "await_pump"
    /\ ReturnAuthOnExit

\* The initial join failed: browser.kill(), running = false, Ok(())
KillAfterJoinFailed ==
    /\ pc = "kill_join_failed"
    /\ browser' = FALSE
    /\ LeaveHandleActions("join_failed")
    /\ UNCHANGED <<stash, nextToken, participant_config, attempt, page, pump, detached,
                   queue, cur, joinCtx, handles, closers, refreshed, ops>>

\* ------------------------------------------------------------------------
\* The participant actor: the command loop
\* ------------------------------------------------------------------------

\* The next command is taken while the state refresh of the previous one
\* is still to run.
can_receive_early(p, det) == p \in {"wait", "refresh"} /\ ~det

\* select! without `biased`: a command is taken while a detached event waits
can_receive_unbiased(p, det) == p = "wait"

\* Whether select! may take a command: the select is biased, a waiting
\* detached event is taken first.
can_receive(p, det) == p = "wait" /\ ~det

\* join() without its check of the snapshot
DispatchPc_unchecked(m, st, cfg) ==
    CASE m.kind = "Join" -> JoinEntry(cfg)
      [] m.kind = "Close" -> "close_leave"
      [] OTHER -> "handle"

\* The first await of the handler of a command.  join() returns at once
\* when the snapshot says joined, and the state refresh follows.
DispatchPc(m, st, cfg) ==
    CASE m.kind = "Join" -> IF st.joined THEN "refresh" ELSE JoinEntry(cfg)
      [] m.kind = "Close" -> "close_leave"
      [] OTHER -> "handle"

JoinCtxOf(m, st) ==
    IF m.kind = "Join" THEN (IF st.joined THEN "already_joined" ELSE "command") ELSE None

\* receiver.recv() yields the oldest command and its handler is entered
Recv ==
    /\ can_receive(pc, detached)
    /\ queue # <<>>
    /\ cur' = Head(queue)
    /\ queue' = Tail(queue)
    /\ refreshed' = FALSE
    /\ ops' = {}
    /\ joinCtx' = JoinCtxOf(Head(queue), state)
    /\ pc' = DispatchPc(Head(queue), state, participant_config)
    /\ UNCHANGED <<poolVars, participant_config, attempt, state, page, browser, pump,
                   detached, exit, handles, closers, writes>>

\* What the handler of a command other than Join and Close does to the page
\* when its browser calls succeed
HandlerPageEffect(m, pg, lite) ==
    CASE m.kind = "Leave" -> [pg EXCEPT !.joined = FALSE]
      [] m.kind = "ToggleAudio" -> [pg EXCEPT !.muted = ~@]
      [] m.kind = "ToggleVideo" -> [pg EXCEPT !.video_activated = ~@]
      [] m.kind = "ToggleScreenshare" -> [pg EXCEPT !.screenshare_activated = ~@]
      [] m.kind = "SetWebcamResolutions" ->
            IF lite THEN pg ELSE [pg EXCEPT !.webcam_resolution = m.value]
      [] m.kind = "SetNoiseSuppression" ->
            IF lite THEN pg ELSE [pg EXCEPT !.noise_suppression = m.value]
      [] m.kind = "ToggleBackgroundBlur" ->
            IF lite THEN pg ELSE [pg EXCEPT !.background_blur = ~@]

\* Handlers that call update_state themselves after their browser call
HandlerUpdates(m, lite) ==
    IF lite THEN m.kind \in {"ToggleAudio", "ToggleVideo", "ToggleScreenshare"}
    ELSE m.kind \in {"SetNoiseSuppression", "ToggleBackgroundBlur"}

HandlerOp(m, lite) ==
    IF m.kind \in {"Leave", "ToggleAudio", "ToggleVideo", "ToggleScreenshare"}
    THEN {"click"} ELSE {}

\* The loop going back to select! after a handler's error
after_handler_skips(ok) == IF ok THEN "refresh" ELSE "wait"

\* Where the loop goes after the handler of a command returned Ok (ok) or
\* an error: the error is logged, self.update_state() follows in both cases
after_handler(ok) == "refresh"

\* The handler of a command other than Join and Close.  Its error is logged;
\* the state refresh follows in both cases.
Handle ==
    /\ pc = "handle"
    /\ \/ /\ page' = HandlerPageEffect(cur, page, participant_config.lite)
          /\ ops' = ops \cup HandlerOp(cur, participant_config.lite)
          /\ state' = IF HandlerUpdates(cur, participant_config.lite)
                      THEN update_state(state, page', participant_config.lite)
                      ELSE state
          /\ pc' = after_handler(TRUE)
       \/ /\ pc' = after_handler(FALSE)
          /\ UNCHANGED <<page, ops, state>>
    /\ UNCHANGED <<poolVars, participant_config, attempt, browser, pump, detached, queue,
                   cur, joinCtx, exit, handles, closers, refreshed, writes>>

\* self.update_state() at the end of a loop iteration
Refresh ==
    /\ pc = "refresh"
    /\ state' = update_state(state, page, participant_config.lite)
    /\ refreshed' = TRUE
    /\ cur' = NoMsg
    /\ joinCtx' = None
    /\ ops' = {}
    /\ pc' = "wait"
    /\ UNCHANGED <<poolVars, participant_config, attempt, page, browser, pump, detached,
                   queue, exit, handles, closers, writes>>

\* close(): leave() and page.close(), errors logged
CloseLeave ==
    /\ pc \in {"close_leave", "close_page"}
    /\ \/ /\ pc = "close_leave"
          /\ page' = [page EXCEPT !.joined = FALSE]
          /\ ops' = ops \cup {"click"}
       \/ UNCHANGED <<page, ops>>
    /\ pc' = IF pc = "close_leave" THEN "close_page" ELSE "close_browser"
    /\ UNCHANGED <<poolVars, participant_config, attempt, state, browser, pump, detached,
                   queue, cur, joinCtx, exit, handles, closers, refreshed,
                   writes>>

\* close() publishes running = false and handle_actions, instead of
\* returning, breaks out of the loop and publishes it again.
close_finish_breaks(kind) ==
    /\ state' = set_running(state, FALSE)
    /\ writes' = Append(Append(writes, FALSE), FALSE)
    /\ exit' = kind
    /\ pc' = "await_pump"
    /\ ReturnAuthOnExit

\* What close() does after browser.wait() returned Ok: it publishes
\* running = false and handle_actions returns Ok(()) at once.
close_finish(kind) == LeaveHandleActions(kind)

\* close(): browser.close()? and browser.wait()?.  An error of either is
\* returned by handle_actions and by run.
CloseBrowser ==
    /\ pc \in {"close_browser", "close_wait"}
    /\ \/ /\ pc = "close_browser"
          /\ browser' = FALSE
          /\ pc' = "close_wait"
          /\ UNCHANGED <<poolVars, state, writes, exit>>
       \/ /\ pc = "close_wait"
          /\ close_finish("closed")
          /\ UNCHANGED <<stash, nextToken, browser>>
       \/ /\ RunFails("close_error")
          /\ browser' = FALSE
          /\ UNCHANGED <<stash, nextToken, state, writes>>
    /\ UNCHANGED <<participant_config, attempt, page, pump, detached, queue, cur,
                   joinCtx, handles, closers, refreshed, ops>>

\* select!: the detached event is taken; browser.kill() is awaited
ObserveDetached ==
    /\ pc = "wait"
    /\ detached
    /\ detached' = FALSE
    /\ pc' = "kill_detached"
    /\ UNCHANGED <<poolVars, participant_config, attempt, state, page, browser, pump,
                   queue, cur, joinCtx, exit, handles, closers, refreshed,
                   writes, ops>>

\* browser.kill() returned; break; running = false; Ok(())
KillDetached ==
    /\ pc = "kill_detached"
    /\ browser' = FALSE
    /\ LeaveHandleActions("detached")
    /\ UNCHANGED <<stash, nextToken, participant_config, attempt, page, pump, detached,
                   queue, cur, joinCtx, handles, closers, refreshed, ops>>

\* drive_browser_events: the handler stream ends once the browser is gone
PumpEnds ==
    /\ pump = "running"
    /\ ~browser
    /\ pump' = "done"
    /\ UNCHANGED <<poolVars, pc, participant_config, attempt, state, page, browser,
                   detached, queue, cur, joinCtx, exit, handles, closers, refreshed, writes, ops>>

\* run: browser_event_task_handle.await, then Ok(()); the task ends
AwaitPump ==
    /\ pc = "await_pump"
    /\ pump = "done"
    /\ pc' = "done"
    /\ ReturnActorCookie
    /\ UNCHANGED <<stash, nextToken, participant_config, attempt, state, page, browser,
                   pump, detached, queue, cur, joinCtx, exit, handles, closers, refreshed, writes, ops>>

\* Positions at which the task is alive
AlivePcs == LaunchPcs \cup HandleActionsPcs \cup {"await_pump"}

\* a drop guard owned by each clone: the first clone dropped cancels
token_cancelled_by_any_drop(h) == h < MaxHandles

\* The drop guard of the token lives in an Arc shared by the clones of the
\* handle: the token is cancelled when no clone is left
token_cancelled(h) == h = 0

\* The cancellation token is cancelled by the drop guard of the last handle
\* clone; the task's select! is biased and takes the cancellation at its
\* next poll.  The future of run is dropped with all it owns.
ObserveCancel ==
    /\ pc \in AlivePcs
    /\ token_cancelled(handles)
    /\ pc' = "cancelled"
    /\ exit' = "cancelled"
    /\ browser' = FALSE
    /\ ReturnActorCookie
    /\ UNCHANGED <<stash, nextToken, participant_config, attempt, state, page, pump,
                   detached, queue, cur, joinCtx, closers, handles, refreshed, writes, ops>>

\* ------------------------------------------------------------------------
\* The Participant handle
\* ------------------------------------------------------------------------

\* The command receiver lives in run and then in handle_actions.
ReceiverAlive == pc \in LaunchPcs \cup HandleActionsPcs

\* The watch sender lives as long as the future of run.
StateSenderAlive == pc \in AlivePcs

\* A clone that is not inside close()
FreeHandle == handles - closers >= 1

\* self.sender.send(message)
Send(m) == queue' = Append(queue, m)

CanSend == ReceiverAlive /\ Len(queue) < MaxQueue

\* Whether Participant::join sends the command
join_sends(st) == st.running /\ ~st.joined

\* Whether Participant::send_message sends a command other than Join
message_sends(st) == st.running /\ st.joined

\* Participant::close without its check of the snapshot
close_sends_always(st) == TRUE

\* Whether Participant::close sends Close and awaits the snapshot
close_sends(st) == st.running

\* Participant::join and Participant::send_message
CallSend(m) ==
    /\ FreeHandle
    /\ m.kind # "Close"
    /\ m.kind = "ToggleScreenshare" => participant_config.lite
    /\ IF m.kind = "Join" THEN join_sends(state) ELSE message_sends(state)
    /\ CanSend
    /\ Send(m)
    /\ UNCHANGED <<poolVars, pc, participant_config, attempt, state, page, browser, pump,
                   detached, cur, joinCtx, exit, handles, closers, refreshed,
                   writes, ops>>

\* Participant::close(self): returns at once when the snapshot is not
\* running; otherwise sends Close and, when that succeeded, awaits
\* running = false.  The clone is dropped when close returns.
CallClose ==
    /\ FreeHandle
    /\ pc # "unspawned"
    /\ IF close_sends(state)
       THEN IF ReceiverAlive
            THEN /\ CanSend
                 /\ Send(Msg("Close", None))
                 /\ closers' = closers + 1
                 /\ UNCHANGED handles
            ELSE /\ handles' = handles - 1
                 /\ UNCHANGED <<queue, closers>>
       ELSE /\ handles' = handles - 1
            /\ UNCHANGED <<queue, closers>>
    /\ UNCHANGED <<poolVars, pc, participant_config, attempt, state, page, browser, pump,
                   detached, cur, joinCtx, exit, refreshed, writes, ops>>

\* state.wait_for(|state| !state.running) returns: the snapshot is not
\* running, or the channel is closed
CloseReturns ==
    /\ closers >= 1
    /\ ~state.running \/ ~StateSenderAlive
    /\ closers' = closers - 1
    /\ handles' = handles - 1
    /\ UNCHANGED <<poolVars, pc, participant_config, attempt, state, page, browser, pump,
                   detached, queue, cur, joinCtx, exit, refreshed, writes,
                   ops>>

\* Participant::clone (ParticipantStore::get, values)
CloneHandle ==
    /\ handles >= 1
    /\ handles < MaxHandles
    /\ handles' = handles + 1
    /\ UNCHANGED <<poolVars, pc, participant_config, attempt, state, page, browser, pump,
                   detached, queue, cur, joinCtx, exit, closers, refreshed,
                   writes, ops>>

\* A clone is dropped; the drop guard of the last one cancels the token
DropHandle ==
    /\ FreeHandle
    /\ handles' = handles - 1
    /\ UNCHANGED <<poolVars, pc, participant_config, attempt, state, page, browser, pump,
                   detached, queue, cur, joinCtx, exit, closers, refreshed,
                   writes, ops>>

\* ------------------------------------------------------------------------
\* The browser and the page, from outside
\* ------------------------------------------------------------------------

\* The page is closed by the user: EventDetachedFromTarget reaches the
\* listener created after the initial join.  The actor looks at the listener
\* in its select! only, where the event is delivered here.
DetachEvent ==
    /\ pc = "wait"
    /\ browser
    /\ ~detached
    /\ detached' = TRUE
    /\ UNCHANGED <<poolVars, pc, participant_config, attempt, state, page, browser, pump,
                   queue, cur, joinCtx, exit, handles, closers, refreshed,
                   writes, ops>>

\* The session's UI changes a control without a command of the actor: the
\* participant is removed from the call
PageEvent ==
    /\ pc \in HandleActionsPcs
    /\ browser
    /\ page.joined
    /\ page' = [page EXCEPT !.joined = FALSE]
    /\ UNCHANGED <<poolVars, pc, participant_config, attempt, state, browser, pump,
                   detached, queue, cur, joinCtx, exit, handles, closers, refreshed, writes, ops>>

\* ------------------------------------------------------------------------
\* Specifications
\* ------------------------------------------------------------------------

\* The task's select! polling run although the token is cancelled
run_is_polled_always(h) == TRUE

\* The task's select! is biased: run is polled only while the token is not
\* cancelled, that is while a clone of the handle lives
run_is_polled(h) == h >= 1

\* The steps of the actor's task; a cancelled task is polled once more, to
\* take the cancellation
ActorStep ==
    /\ run_is_polled(handles)
    /\ \/ RunAuth
       \/ CreateBrowser
       \/ CreatePage
       \/ JoinStep
       \/ JoinUpdate
       \/ KillAfterJoinFailed
       \/ Recv
       \/ Handle
       \/ Refresh
       \/ CloseLeave
       \/ CloseBrowser
       \/ ObserveDetached
       \/ KillDetached
       \/ AwaitPump

ActorNext == ActorStep \/ ObserveCancel \/ PumpEnds

SpawnNext ==
    \/ \E cfg \in Configs, d \in Domains : SpawnLocal(cfg, d)
    \/ \E cfg \in Configs, c \in QueryCookies \cup {NoCookie} : SpawnWorker(cfg, c)

HandleNext ==
    \/ \E m \in SentMessages : CallSend(m)
    \/ CallClose
    \/ CloseReturns
    \/ CloneHandle
    \/ DropHandle

EnvNext == DetachEvent \/ PageEvent

Next ==
    /\ SpawnNext \/ ActorNext \/ HandleNext \/ EnvNext
    /\ UNCHANGED <<orchVars, connVars, auxVars>>

\* One participant actor, its handle, its browser and the cookie manager
Spec == Init /\ [][Next]_vars

\* The runtime polls every task that can make progress
LiveSpec == Spec /\ WF_vars(ActorNext /\ UNCHANGED <<orchVars, connVars, auxVars>>)

\* ------------------------------------------------------------------------
\* The orchestrator: configuration
\* ------------------------------------------------------------------------

\* number of worker urls of a plan
MaxWorkers == 3
\* largest wait_to_join_seconds of a plan
MaxWait == 2
\* largest participant index effective_participant is asked for
MaxIndex == 4

\* Option<T>: None is the empty sequence, Some(v) the sequence of v
Some(v) == <<v>>
NoneOpt == <<>>
unwrap_or(o, v) == IF o = NoneOpt THEN v ELSE o[1]

WorkerUrls == <<"ws://worker-a", "ws://worker-b", "ws://worker-c", "ws://worker-d",
                "ws://worker-e">>
WorkerLists == {SubSeq(WorkerUrls, 1, n) : n \in 0..MaxWorkers}

\* Config::default(), the built-in client settings
ClientConfigDefault ==
    [url |-> NoneOpt, headless |-> FALSE, audio_enabled |-> FALSE, video_enabled |-> FALSE,
     screenshare_enabled |-> FALSE, noise_suppression |-> "Disabled",
     transport |-> "WebTransport", resolution |-> "Auto", blur |-> FALSE]

\* The fields of the `defaults` block and of an `initial` block, in the
\* order effective_participant applies them
DefaultsFields == <<"audio_enabled", "video_enabled", "screenshare_enabled", "headless",
                    "noise_suppression", "transport", "resolution", "blur">>
InitialFields == <<"audio_enabled", "video_enabled", "screenshare_enabled",
                   "noise_suppression", "resolution", "blur">>

ParticipantDefaults(h, a, v, sc, ns, t, r, b, fm) ==
    [headless |-> h, audio_enabled |-> a, video_enabled |-> v, screenshare_enabled |-> sc,
     noise_suppression |-> ns, transport |-> t, resolution |-> r, blur |-> b,
     fake_media |-> fm]

ParticipantInitial(a, v, sc, b, ns, r, fm) ==
    [audio_enabled |-> a, video_enabled |-> v, screenshare_enabled |-> sc, blur |-> b,
     noise_suppression |-> ns, resolution |-> r, fake_media |-> fm]

ParticipantSpec(u, w, i) == [username |-> u, wait_to_join_seconds |-> w, initial |-> i]

\* ParticipantSpec::default()
DefaultParticipantSpec == ParticipantSpec(NoneOpt, NoneOpt, NoneOpt)

\* Sample `defaults` blocks: absent, empty, every field set, some fields set
DefaultsSamples ==
    {NoneOpt,
     Some(ParticipantDefaults(NoneOpt, NoneOpt, NoneOpt, NoneOpt, NoneOpt, NoneOpt, NoneOpt,
                              NoneOpt, NoneOpt)),
     Some(ParticipantDefaults(Some(TRUE), Some(TRUE), Some(TRUE), Some(TRUE),
                              Some("RNNoise"), Some("WebRTC"), Some("P720"), Some(TRUE),
                              Some("none"))),
     Some(ParticipantDefaults(NoneOpt, Some(TRUE), NoneOpt, Some(TRUE), NoneOpt,
                              Some("WebRTC"), Some("P1080"), NoneOpt, Some("builtin")))}

\* Sample `initial` blocks with the username of their spec
InitialSamples ==
    {<<NoneOpt, NoneOpt>>,
     <<Some("carol"),
       Some(ParticipantInitial(NoneOpt, NoneOpt, NoneOpt, NoneOpt, NoneOpt, NoneOpt, NoneOpt))>>,
     <<NoneOpt,
       Some(ParticipantInitial(Some(FALSE), Some(FALSE), Some(FALSE), Some(FALSE),
                               Some("Deepfilternet"), Some("P144"),
                               Some("http://media/clip")))>>,
     <<Some("dave"),
       Some(ParticipantInitial(Some(TRUE), NoneOpt, Some(TRUE), NoneOpt, Some("KrispHigh"),
                               NoneOpt, NoneOpt))>>}

WaitSamples == {NoneOpt} \cup {Some(w) : w \in 0..MaxWait}

SpecSamples == {ParticipantSpec(i[1], w, i[2]) : i \in InitialSamples, w \in WaitSamples}

\* Pairs of specs: every pair of delays, the blocks of the second following
\* from those of the first
SpecPairs ==
    UNION {{<<a, ParticipantSpec(b[1], w, b[2])>> :
                w \in WaitSamples,
                b \in {x \in InitialSamples : x # <<a.username, a.initial>>
                                               /\ (x[1] = NoneOpt) # (a.username = NoneOpt)}} :
           a \in SpecSamples}

SpecLists == {<<>>} \cup {<<a>> : a \in SpecSamples} \cup SpecPairs

OrchestratorConfig(ws, d, ps) ==
    [session_url |-> MeetHost, workers |-> ws, defaults |-> d, participants_specs |-> ps]

OrchConfigs ==
    {OrchestratorConfig(ws, d, ps) :
        ws \in WorkerLists, d \in DefaultsSamples,
        ps \in {NoneOpt} \cup {Some(l) : l \in SpecLists}}

\* OrchestratorConfig::total_participants
total_participants(cfg) ==
    IF cfg.participants_specs # NoneOpt /\ cfg.participants_specs[1] # <<>>
    THEN Len(cfg.participants_specs[1])
    ELSE 0

\* OrchestratorConfig::participant_spec, index counted from 0
participant_spec(cfg, index) ==
    IF cfg.participants_specs # NoneOpt /\ index < Len(cfg.participants_specs[1])
    THEN cfg.participants_specs[1][index + 1]
    ELSE DefaultParticipantSpec

\* `if let Some(v) = block.f { client.f = v; }` for the fields, in order
RECURSIVE apply_fields(_, _, _)
apply_fields(client, block, fields) ==
    IF fields = <<>> THEN client
    ELSE LET f == Head(fields)
         IN apply_fields(IF block[f] = NoneOpt THEN client
                         ELSE [client EXCEPT ![f] = block[f][1]],
                         block, Tail(fields))

\* format!("orch-{}", index)
format_orch(index) ==
    <<"orch-0", "orch-1", "orch-2", "orch-3", "orch-4", "orch-5", "orch-6">>[index + 1]

\* workers.get(index % workers_len), taking the next worker instead
pick_worker_shifted(workers, index) == workers[((index + 1) % Len(workers)) + 1]

\* workers.get(index % workers_len)
pick_worker(workers, index) == workers[(index % Len(workers)) + 1]

\* The client settings with the blocks applied in the other order
layer_settings_defaults_last(defaults, initial) ==
    LET overridden == IF initial = NoneOpt THEN ClientConfigDefault
                      ELSE apply_fields(ClientConfigDefault, initial[1], InitialFields)
    IN IF defaults = NoneOpt THEN overridden
       ELSE apply_fields(overridden, defaults[1], DefaultsFields)

\* The client settings of effective_participant: the built-in settings, then
\* the `defaults` block, then the spec's `initial` block
layer_settings(defaults, initial) ==
    LET defaulted == IF defaults = NoneOpt THEN ClientConfigDefault
                     ELSE apply_fields(ClientConfigDefault, defaults[1], DefaultsFields)
    IN IF initial = NoneOpt THEN defaulted
       ELSE apply_fields(defaulted, initial[1], InitialFields)

Panic == [panic |-> "remainder with a divisor of zero"]

EffectiveParticipantConfig(u, c, r, fm) ==
    [username |-> u, client |-> c, remote_url |-> r, fake_media |-> fm]

\* OrchestratorConfig::effective_participant, index counted from 0
effective_participant(cfg, index) ==
    IF Len(cfg.workers) = 0 THEN Panic
    ELSE LET spec == participant_spec(cfg, index)
         IN EffectiveParticipantConfig(
                unwrap_or(spec.username, format_orch(index)),
                [layer_settings(cfg.defaults, spec.initial) EXCEPT
                    !.url = Some(cfg.session_url)],
                pick_worker(cfg.workers, index),
                IF spec.initial # NoneOpt THEN spec.initial[1].fake_media
                ELSE IF cfg.defaults # NoneOpt THEN cfg.defaults[1].fake_media
                ELSE NoneOpt)

\* validate() deciding on the workers alone
validate_workers_only(cfg) ==
    IF cfg.workers = <<>> THEN "config.workers must be non-empty" ELSE "ok"

\* OrchestratorConfig::validate: the error, or "ok"
validate(cfg) ==
    IF cfg.workers = <<>> THEN "config.workers must be non-empty"
    ELSE IF total_participants(cfg) = 0
         THEN "configure either non-empty participants_specs or participants > 0"
    ELSE "ok"

\* ------------------------------------------------------------------------
\* The connection url of a remote participant
\* ------------------------------------------------------------------------

\* run: the fake_media of the query.  "none" and "builtin" name their
\* variants, a text starting with http that parses is the Url variant and
\* anything else, an absent setting included, is Builtin.
fake_media_query(fm) ==
    IF fm = Some("none") THEN Some([variant |-> "None", url |-> ""])
    ELSE IF fm # NoneOpt /\ fm[1] \in {"http://media/clip"}
         THEN Some([variant |-> "Url", url |-> fm[1]])
    ELSE Some([variant |-> "Builtin", url |-> ""])

\* ParticipantConfigQuery, as run builds it from an effective participant
\* and as ParticipantConfigQuery::new builds it from a client config
ParticipantConfigQuery(eff, session_url, c, fm) ==
    [username |-> eff.username, remote_url |-> eff.remote_url, session_url |-> session_url,
     base_url |-> session_url, cookie |-> c, fake_media |-> fm,
     audio_enabled |-> eff.client.audio_enabled, video_enabled |-> eff.client.video_enabled,
     headless |-> eff.client.headless,
     screenshare_enabled |-> eff.client.screenshare_enabled,
     noise_suppression |-> eff.client.noise_suppression,
     transport |-> eff.client.transport, resolution |-> eff.client.resolution,
     blur |-> eff.client.blur]

\* The fields of ParticipantConfigQuery in the order serde writes them
QueryFields == <<"username", "remote_url", "session_url", "base_url", "cookie",
                 "fake_media", "audio_enabled", "video_enabled", "headless",
                 "screenshare_enabled", "noise_suppression", "transport", "resolution",
                 "blur">>

\* The values each field's JSON text can stand for.  `tags` are the texts
\* that open an optional or an enum value, `media` the urls of a Url variant.
JsonValues ==
    [username |-> <<"alice", "bob", "carol", "dave", "goblin", "orch-0", "orch-1",
                    "orch-2", "orch-3", "orch-4", "orch-5", "orch-6">>,
     remote_url |-> WorkerUrls,
     session_url |-> <<MeetHost, DevHost>>,
     base_url |-> <<MeetHost, DevHost>>,
     tags |-> <<"null", "object", "None", "Builtin", "Url">>,
     media |-> <<"http://media/clip">>,
     audio_enabled |-> <<FALSE, TRUE>>,
     video_enabled |-> <<FALSE, TRUE>>,
     headless |-> <<FALSE, TRUE>>,
     screenshare_enabled |-> <<FALSE, TRUE>>,
     noise_suppression |-> <<"Disabled", "Deepfilternet", "RNNoise", "KrispHigh">>,
     transport |-> <<"WebTransport", "WebRTC">>,
     resolution |-> <<"Auto", "P144", "P720", "P1080">>,
     blur |-> <<FALSE, TRUE>>]

\* The JSON text of value v of field f, one byte standing for the text
json_byte(f, v) ==
    ((CHOOSE k \in 1..Len(JsonValues[f]) : JsonValues[f][k] = v) * 251) % 256

\* The value of field f a byte of JSON text stands for, if any
json_value(f, b) ==
    IF \E k \in 1..Len(JsonValues[f]) : (k * 251) % 256 = b
    THEN Some(JsonValues[f][CHOOSE k \in 1..Len(JsonValues[f]) : (k * 251) % 256 = b])
    ELSE NoneOpt

\* serde_json::to_string(&query): the bytes of the JSON text
RECURSIVE to_json(_, _)
to_json(q, fields) ==
    IF fields = <<>> THEN <<>>
    ELSE LET f == Head(fields)
             text ==
                 IF f = "cookie"
                 THEN IF q.cookie = NoCookie THEN <<json_byte("tags", "null")>>
                      ELSE <<json_byte("tags", "object"),
                             json_byte("session_url", q.cookie.domain),
                             json_byte("username", q.cookie.username),
                             q.cookie.cookie % 256>>
                 ELSE IF f = "fake_media"
                 THEN IF q.fake_media = NoneOpt THEN <<json_byte("tags", "null")>>
                      ELSE IF q.fake_media[1].variant = "Url"
                           THEN <<json_byte("tags", "Url"),
                                  json_byte("media", q.fake_media[1].url)>>
                      ELSE <<json_byte("tags", q.fake_media[1].variant)>>
                 ELSE <<json_byte(f, q[f])>>
         IN text \o to_json(q, Tail(fields))

\* serde_json::from_slice::<ParticipantConfigQuery>: the query the bytes
\* stand for, or the parse error
RECURSIVE from_json(_, _, _)
from_json(bytes, fields, acc) ==
    LET Err == [ok |-> FALSE, query |-> <<>>]
        rest(n) == SubSeq(bytes, n + 1, Len(bytes))
        next(n, v) == from_json(rest(n), Tail(fields), acc @@ (Head(fields) :> v))
    IN IF fields = <<>> THEN IF bytes = <<>> THEN [ok |-> TRUE, query |-> acc] ELSE Err
       ELSE IF bytes = <<>> THEN Err
       ELSE IF Head(fields) = "cookie"
       THEN IF json_value("tags", bytes[1]) = Some("null") THEN next(1, NoCookie)
            ELSE IF /\ json_value("tags", bytes[1]) = Some("object")
                    /\ Len(bytes) >= 4
                    /\ json_value("session_url", bytes[2]) # NoneOpt
                    /\ json_value("username", bytes[3]) # NoneOpt
                 THEN next(4, HyperSessionCookie(json_value("session_url", bytes[2])[1],
                                                 json_value("username", bytes[3])[1],
                                                 bytes[4]))
            ELSE Err
       ELSE IF Head(fields) = "fake_media"
       THEN IF json_value("tags", bytes[1]) = Some("null") THEN next(1, NoneOpt)
            ELSE IF json_value("tags", bytes[1]) \in {Some("None"), Some("Builtin")}
                 THEN next(1, Some([variant |-> json_value("tags", bytes[1])[1],
                                    url |-> ""]))
            ELSE IF /\ json_value("tags", bytes[1]) = Some("Url")
                    /\ Len(bytes) >= 2
                    /\ json_value("media", bytes[2]) # NoneOpt
                 THEN next(2, Some([variant |-> "Url",
                                    url |-> json_value("media", bytes[2])[1]]))
            ELSE Err
       ELSE IF json_value(Head(fields), bytes[1]) = NoneOpt THEN Err
       ELSE next(1, json_value(Head(fields), bytes[1])[1])

\* The URL-safe alphabet: '-' and '_' for the digits 62 and 63
base64_char_url_safe(d) ==
    IF d < 26 THEN 65 + d
    ELSE IF d < 52 THEN 97 + (d - 26)
    ELSE IF d < 62 THEN 48 + (d - 52)
    ELSE IF d = 62 THEN 45 ELSE 95

\* BASE64_STANDARD: the character of a 6-bit digit: A-Z, a-z, 0-9, '+', '/'
base64_char(d) ==
    IF d < 26 THEN 65 + d
    ELSE IF d < 52 THEN 97 + (d - 26)
    ELSE IF d < 62 THEN 48 + (d - 52)
    ELSE IF d = 62 THEN 43 ELSE 47

\* BASE64_STANDARD: the 6-bit digit of a character, -1 for none
base64_digit(c) ==
    IF c \in 65..90 THEN c - 65
    ELSE IF c \in 97..122 THEN c - 71
    ELSE IF c \in 48..57 THEN c + 4
    ELSE IF c = 43 THEN 62
    ELSE IF c = 47 THEN 63
    ELSE -1

\* BASE64_STANDARD.encode: three bytes to four characters, '=' padding
RECURSIVE base64_encode(_)
base64_encode(bytes) ==
    IF bytes = <<>> THEN <<>>
    ELSE IF Len(bytes) = 1
    THEN <<base64_char(bytes[1] \div 4), base64_char((bytes[1] % 4) * 16), 61, 61>>
    ELSE IF Len(bytes) = 2
    THEN <<base64_char(bytes[1] \div 4),
           base64_char((bytes[1] % 4) * 16 + bytes[2] \div 16),
           base64_char((bytes[2] % 16) * 4), 61>>
    ELSE <<base64_char(bytes[1] \div 4),
           base64_char((bytes[1] % 4) * 16 + bytes[2] \div 16),
           base64_char((bytes[2] % 16) * 4 + bytes[3] \div 64),
           base64_char(bytes[3] % 64)>> \o base64_encode(SubSeq(bytes, 4, Len(bytes)))

\* BASE64_STANDARD.decode: the bytes, or None for a character outside the
\* alphabet, a wrong length or wrong padding
RECURSIVE base64_decode(_)
base64_decode(chars) ==
    IF chars = <<>> THEN Some(<<>>)
    ELSE IF Len(chars) < 4 \/ base64_digit(chars[1]) < 0 \/ base64_digit(chars[2]) < 0
    THEN NoneOpt
    ELSE LET d1 == base64_digit(chars[1])
             d2 == base64_digit(chars[2])
             d3 == base64_digit(chars[3])
             d4 == base64_digit(chars[4])
             tail == base64_decode(SubSeq(chars, 5, Len(chars)))
         IN IF chars[3] = 61
            THEN IF chars[4] = 61 /\ Len(chars) = 4 /\ d2 % 16 = 0
                 THEN Some(<<d1 * 4 + d2 \div 16>>)
                 ELSE NoneOpt
            ELSE IF chars[4] = 61
            THEN IF d3 >= 0 /\ Len(chars) = 4 /\ d3 % 4 = 0
                 THEN Some(<<d1 * 4 + d2 \div 16, (d2 % 16) * 16 + d3 \div 4>>)
                 ELSE NoneOpt
            ELSE IF d3 < 0 \/ d4 < 0 \/ tail = NoneOpt THEN NoneOpt
            ELSE Some(<<d1 * 4 + d2 \div 16, (d2 % 16) * 16 + d3 \div 4,
                        (d3 % 4) * 64 + d4>> \o tail[1])

\* form_urlencoded::byte_serialize, used by append_pair: letters, digits and
\* "*-._" stay, a space becomes '+', any other byte becomes %XX
RECURSIVE byte_serialize(_)
byte_serialize(chars) ==
    IF chars = <<>> THEN <<>>
    ELSE LET c == Head(chars)
             hex(n) == IF n < 10 THEN 48 + n ELSE 55 + n
         IN (IF c \in (48..57) \cup (65..90) \cup (97..122) \cup {42, 45, 46, 95}
             THEN <<c>>
             ELSE IF c = 32 THEN <<43>>
             ELSE <<37, hex(c \div 16), hex(c % 16)>>) \o byte_serialize(Tail(chars))

\* form_urlencoded::parse of a value, as the Query extractor does: '+' is a
\* space, %XX is the byte, anything else stays
RECURSIVE percent_decode(_)
percent_decode(chars) ==
    IF chars = <<>> THEN <<>>
    ELSE LET unhex(c) == IF c \in 48..57 THEN c - 48
                         ELSE IF c \in 65..70 THEN c - 55
                         ELSE IF c \in 97..102 THEN c - 87
                         ELSE -1
         IN IF Head(chars) = 43 THEN <<32>> \o percent_decode(Tail(chars))
            ELSE IF /\ Head(chars) = 37
                    /\ Len(chars) >= 3
                    /\ unhex(chars[2]) >= 0
                    /\ unhex(chars[3]) >= 0
            THEN <<unhex(chars[2]) * 16 + unhex(chars[3])>>
                     \o percent_decode(SubSeq(chars, 4, Len(chars)))
            ELSE <<Head(chars)>> \o percent_decode(Tail(chars))

\* ParticipantConfigQuery::into_url
into_url(q) ==
    [url |-> q.remote_url,
     payload |-> byte_serialize(base64_encode(to_json(q, QueryFields)))]

\* The worker's handler: the payload parameter of the query string, then
\* ParticipantConfigQuery::try_from
try_from(url) ==
    LET json == base64_decode(percent_decode(url.payload))
    IN IF json = NoneOpt THEN [ok |-> FALSE, query |-> <<>>]
       ELSE from_json(json[1], QueryFields, <<>>)

\* ------------------------------------------------------------------------
\* The orchestrator: resolving the participants of a configuration
\* ------------------------------------------------------------------------

\* A parsed configuration file, nothing resolved yet.  The delays of the
\* specs are not read when a participant is resolved and are left absent.
PlanInit ==
    /\ PoolInit /\ ActorInit /\ ConnIdle /\ AuxIdle
    /\ orch_config \in
          {c \in OrchConfigs :
              c.participants_specs # NoneOpt =>
                  \A k \in DOMAIN c.participants_specs[1] :
                      c.participants_specs[1][k].wait_to_join_seconds = NoneOpt}
    /\ effective = <<>>
    /\ received = <<>>
    /\ rpc = "idle"
    /\ elapsed_seconds = 0
    /\ idx = 0
    /\ joined_participants = <<>>
    /\ tasks = <<>>
    /\ started_at = <<>>
    /\ recv_tasks = <<>>
    /\ guard_captured = TRUE

\* cfg.effective_participant(index)
Resolve(index) ==
    /\ effective' = <<index, effective_participant(orch_config, index)>>
    /\ received' = <<>>
    /\ UNCHANGED <<poolVars, actorVars, orch_config, guard_captured, rpc, elapsed_seconds, idx,
                   joined_participants, tasks, started_at, recv_tasks>>

\* A query for the resolved participant is sent to its worker in the
\* connection url and decoded there.  The query carries cookie c or none;
\* its fake_media is the one run derives, or none at all when
\* ParticipantConfigQuery::new finds no source selected.
Connect(c, selected) ==
    /\ effective # <<>>
    /\ effective[2] # Panic
    /\ received = <<>>
    /\ LET q == ParticipantConfigQuery(
                    effective[2], orch_config.session_url, c,
                    IF selected THEN fake_media_query(effective[2].fake_media)
                    ELSE NoneOpt)
       IN received' = <<q, try_from(into_url(q))>>
    /\ UNCHANGED <<poolVars, actorVars, orch_config, guard_captured, effective, rpc, elapsed_seconds, idx,
                   joined_participants, tasks, started_at, recv_tasks>>

\* ------------------------------------------------------------------------
\* The orchestrator: main and run
\* ------------------------------------------------------------------------

\* whole seconds that pass between two readings of the elapsed time
MaxTickSeconds == 2

\* The cookie_guard of the task of each index
OrchHolders == <<"h1", "h2">>

\* The orchestrator process after parse_config
OrchInit ==
    /\ PoolInit /\ ActorInit /\ ConnIdle /\ AuxIdle
    /\ orch_config \in {c \in OrchConfigs : c.defaults = NoneOpt}
    /\ effective = <<>>
    /\ received = <<>>
    /\ rpc = "main"
    /\ elapsed_seconds = 0
    /\ idx = 0
    /\ joined_participants = <<>>
    /\ tasks = <<>>
    /\ started_at = <<>>
    /\ recv_tasks = <<>>
    /\ guard_captured \in BOOLEAN

\* main: cfg.validate()?, then run(cfg) up to the first reading of the
\* elapsed time
Validate ==
    /\ rpc = "main"
    /\ IF validate(orch_config) # "ok"
       THEN /\ rpc' = "config_error"
            /\ UNCHANGED <<tasks, started_at, recv_tasks>>
       ELSE /\ rpc' = "scan"
            /\ tasks' = [i \in 1..total_participants(orch_config) |-> "none"]
            /\ started_at' = [i \in 1..total_participants(orch_config) |-> NoneOpt]
            /\ recv_tasks' = [i \in 1..total_participants(orch_config) |-> "none"]
    /\ UNCHANGED <<poolVars, actorVars, orch_config, guard_captured, effective, received, elapsed_seconds,
                   idx, joined_participants>>

\* a scan that takes no index for joined
contains_idx_never(joined, i) == FALSE

\* joined_participants.contains(&i)
contains_idx(joined, i) == \E k \in 1..Len(joined) : joined[k] = i

\* fetch_new_cookie whose BorrowedCookie is dropped by its caller
FetchAndDrop(d, u) ==
    /\ nextToken < FirstFreshToken + MaxFresh
    /\ LET c == HyperSessionCookie(d, u, nextToken)
       IN /\ stash' = save_new_cookie(stash, d, c)
          /\ available_cookies' = drop_borrow(available_cookies, BorrowedCookie(d, c))
    /\ nextToken' = nextToken + 1
    /\ UNCHANGED <<borrows, lastCall>>

\* The task's future ends or is dropped: the cookie_guard it owns is dropped
DropGuard(h) == IF guard_captured THEN DropBorrow(h) ELSE UNCHANGED poolVars

\* run: one index of `for idx in 0..total`.  A participant that is due has
\* its cookie fetched and its task spawned; a failed fetch leaves run by `?`.
\* The task's block names cookie_guard in `let _ = cookie_guard;` only: a
\* build that captures the variables a block mentions moves the guard into
\* the task, a build that captures the places a block uses leaves it in the
\* body of the loop, where it is dropped when the iteration ends.
ScanStep ==
    /\ rpc = "scan"
    /\ idx < total_participants(orch_config)
    /\ LET wait_time == unwrap_or(participant_spec(orch_config, idx).wait_to_join_seconds, 0)
           eff == effective_participant(orch_config, idx)
       IN IF contains_idx(joined_participants, idx) \/ ~(elapsed_seconds >= wait_time)
          THEN /\ idx' = idx + 1
               /\ UNCHANGED <<poolVars, rpc, effective, joined_participants, tasks,
                              started_at, recv_tasks>>
          ELSE \/ /\ IF guard_captured
                     THEN FetchNewCookie(OrchHolders[idx + 1], orch_config.session_url,
                                         eff.username)
                     ELSE FetchAndDrop(orch_config.session_url, eff.username)
                  /\ effective' = <<idx, eff>>
                  /\ tasks' = [tasks EXCEPT ![idx + 1] = "spawned"]
                  /\ joined_participants' = Append(joined_participants, idx)
                  /\ started_at' = [started_at EXCEPT ![idx + 1] = Some(elapsed_seconds)]
                  /\ UNCHANGED recv_tasks
                  /\ idx' = idx + 1
                  /\ UNCHANGED rpc
               \/ /\ rpc' = "returned_err"
                  /\ effective' = <<idx, eff>>
                  /\ UNCHANGED <<poolVars, idx, joined_participants, tasks, started_at, recv_tasks>>
    /\ UNCHANGED <<actorVars, orch_config, guard_captured, received, elapsed_seconds>>

\* run: the scan of a tick is over; sleep(1s), the loop condition and, when
\* some index has not joined, the next reading of the elapsed time
ScanEnd ==
    /\ rpc = "scan"
    /\ idx = total_participants(orch_config)
    /\ IF Len(joined_participants) < total_participants(orch_config)
       THEN /\ \E dt \in 1..MaxTickSeconds : elapsed_seconds' = elapsed_seconds + dt
            /\ idx' = 0
            /\ UNCHANGED rpc
       ELSE /\ rpc' = "join_all"
            /\ UNCHANGED <<elapsed_seconds, idx>>
    /\ UNCHANGED <<poolVars, actorVars, orch_config, guard_captured, effective, received,
                   joined_participants, tasks, started_at, recv_tasks>>

\* The states of a task whose future has completed
EndedTasks == {"finished", "failed"}

\* The tasks are polled while the runtime of main lives
RuntimeLives == rpc \in {"scan", "join_all"}

\* The task of index i: connect_async returns.  On an error the task ends,
\* and its cookie_guard is dropped.  On success the socket is split and the
\* stream half is moved into a task of its own, which reads it to its end.
TaskConnect(i) ==
    /\ RuntimeLives
    /\ i + 1 \in DOMAIN tasks
    /\ tasks[i + 1] = "spawned"
    /\ \/ /\ tasks' = [tasks EXCEPT ![i + 1] = "holding"]
          /\ recv_tasks' = [recv_tasks EXCEPT ![i + 1] = "running"]
          /\ UNCHANGED poolVars
       \/ /\ tasks' = [tasks EXCEPT ![i + 1] = "failed"]
          /\ DropGuard(OrchHolders[i + 1])
          /\ UNCHANGED recv_tasks
    /\ UNCHANGED <<actorVars, orch_config, guard_captured, effective, received, rpc, elapsed_seconds, idx,
                   joined_participants, started_at>>

\* The task of index i: sleep(run_for) is over, the task ends.  The sink
\* half and the JoinHandle of the reading task are dropped; a dropped
\* JoinHandle detaches its task, which keeps the stream half.
TaskFinish(i) ==
    /\ RuntimeLives
    /\ i + 1 \in DOMAIN tasks
    /\ tasks[i + 1] = "holding"
    /\ tasks' = [tasks EXCEPT ![i + 1] = "finished"]
    /\ DropGuard(OrchHolders[i + 1])
    /\ UNCHANGED <<actorVars, orch_config, guard_captured, effective, received, rpc, elapsed_seconds, idx,
                   joined_participants, started_at, recv_tasks>>

\* The reading task of index i: stream.next() yields None, the worker has
\* closed the connection or it broke; the task ends and drops the stream
StreamEnds(i) ==
    /\ RuntimeLives
    /\ i + 1 \in DOMAIN recv_tasks
    /\ recv_tasks[i + 1] = "running"
    /\ recv_tasks' = [recv_tasks EXCEPT ![i + 1] = "ended"]
    /\ UNCHANGED <<poolVars, actorVars, orch_config, guard_captured, effective, received, rpc,
                   elapsed_seconds, idx, joined_participants, tasks, started_at>>

\* The connection of index i is open while a half of its socket lives
ConnectionOpen(i) == tasks[i + 1] = "holding" \/ recv_tasks[i + 1] = "running"

\* run: join_all(handles) returns when every handle has
JoinAll ==
    /\ rpc = "join_all"
    /\ \A k \in 1..Len(joined_participants) :
          tasks[joined_participants[k] + 1] \in EndedTasks
    /\ rpc' = "returned_ok"
    /\ UNCHANGED <<poolVars, actorVars, orch_config, guard_captured, effective, received, elapsed_seconds,
                   idx, joined_participants, tasks, started_at, recv_tasks>>

\* The launch of an actor alone: the steps that can be taken until run has
\* published running = true or has ended.
LaunchStep ==
    /\ handles >= 1
    /\ RunAuth \/ CreateBrowser \/ CreatePage

Launching == pc \in LaunchPcs \cup {"unspawned"}

LaunchNext ==
    /\ Launching
    /\ SpawnNext \/ LaunchStep \/ ObserveCancel \/ CloneHandle \/ DropHandle \/ CallClose
    /\ UNCHANGED <<orchVars, connVars, auxVars>>

LaunchSpec ==
    /\ Init /\ [][LaunchNext]_vars
    /\ WF_vars(Launching /\ (LaunchStep \/ ObserveCancel) /\ UNCHANGED <<orchVars, connVars, auxVars>>)

\* The cookie manager alone, used by several holders
PoolNext ==
    /\ \E h \in ExtHolders :
          \/ \E d \in Domains : GiveCookie(h, d)
          \/ \E d \in Domains, u \in Usernames : FetchNewCookie(h, d, u)
          \/ \E c \in QueryCookies : WrapQueryCookie(h, c)
          \/ DropBorrow(h)
    /\ UNCHANGED <<actorVars, orchVars, connVars, auxVars>>

SpecPool == Init /\ [][PoolNext]_vars

\* The participants of a configuration, resolved and connected in any order
PlanNext ==
    /\ \/ \E index \in 0..MaxIndex : Resolve(index)
       \/ \E c \in QueryCookies \cup {NoCookie}, selected \in BOOLEAN : Connect(c, selected)
    /\ UNCHANGED <<connVars, auxVars>>

PlanSpec == PlanInit /\ [][PlanNext]_vars

\* The orchestrator process and the tasks it spawns
OrchNext ==
    /\ \/ Validate
       \/ ScanStep
       \/ ScanEnd
       \/ \E i \in 0..(Len(OrchHolders) - 1) : TaskConnect(i) \/ TaskFinish(i) \/ StreamEnds(i)
       \/ JoinAll
    /\ UNCHANGED <<connVars, auxVars>>

OrchSpec == OrchInit /\ [][OrchNext]_vars

\* ------------------------------------------------------------------------
\* The worker's connection of a remote participant
\* ------------------------------------------------------------------------

\* Frames in flight in each direction of a connection
MaxFrames == 1

\* What receiver.next() yields on the worker: a text frame, a close frame,
\* or an error of the socket
TextFrame(t) == [ws |-> "Text", text |-> t]
CloseFrame == [ws |-> "Close", text |-> ""]
SocketError == [ws |-> "Err", text |-> ""]

\* serde_json::to_string of a ParticipantMessage: a unit variant is its
\* name as a JSON string, a variant with a value an object of one key
to_string(m) ==
    IF m.value = None
    THEN "\"" \o m.kind \o "\""
    ELSE "{\"" \o m.kind \o "\":\"" \o m.value \o "\"}"

SerdeError == Msg("serde_json::Error", None)

\* serde_json::from_str::<ParticipantMessage>
from_str(t) ==
    IF \E m \in ParticipantMessage : to_string(m) = t
    THEN CHOOSE m \in ParticipantMessage : to_string(m) = t
    ELSE SerdeError

\* Text frames of a peer that are not the JSON of a ParticipantMessage
BadTexts == {"Join"}

\* ParticipantResponseMessage::from_state and ::new as text frames, the
\* error frame of AppError::into_message, and the close frame
Response(k, st) == [kind |-> k, state |-> st]
from_state(st) == Response("state", st)
with_log(st) == Response("log", st)
into_message == Response("error", DefaultState)
CloseReply == Response("close", DefaultState)

CanReply == Len(outgoing) < MaxFrames

\* The connections served here ask for the full frontend
FullConfigs == {cfg \in Configs : ~cfg.lite}

\* handle_socket: the connection is upgraded and handle_socket_inner spawns
\* the actor, or returns the error of a query without a cookie
Accept(cfg, c) ==
    /\ wpc = "none"
    /\ SpawnWorker(cfg, c)
    /\ wpc' = IF into_config_and_cookie(c) = NoBorrow THEN "failed" ELSE "select"
    /\ wreason' = IF into_config_and_cookie(c) = NoBorrow THEN "no_cookie" ELSE None
    /\ chandle' = "held"
    /\ clink' = "open"
    /\ UNCHANGED <<incoming, outgoing, unseen, logs, last_sent, client_state>>

\* A step of the actor's task called state.send_modify
send_modify_called ==
    \/ writes' # writes
    \/ pc = "join_update" /\ pc' \in {"wait", "refresh"}
    \/ pc = "refresh" /\ pc' = "wait"
    \/ /\ pc = "handle" /\ pc' = "refresh"
       /\ HandlerUpdates(cur, participant_config.lite)
       /\ ops' # ops

\* The ParticipantLogMessages a step of the actor's task sends.  The actor
\* of the full frontend sends none; its task sends the error of run, and
\* that the participant has been closed, when it ends
log_messages ==
    IF pc \notin EndedPcs /\ pc' \in EndedPcs
    THEN (IF pc' = "failed" THEN <<"error", "debug">> ELSE <<"debug">>)
    ELSE <<>>

\* The actor, its browser and its page while the worker serves the
\* connection: send_modify marks the watch channel changed for rx
ConnActor ==
    /\ ActorNext \/ DetachEvent
    /\ unseen' = (unseen \/ send_modify_called)
    /\ logs' = logs \o log_messages
    /\ UNCHANGED <<wpc, wreason, incoming, outgoing, last_sent, chandle, clink, client_state>>

\* The loop returning after participant.close() without a close frame
after_close_returns(reason) == "ended"

\* Where handle_socket_inner goes when participant.close() has returned
after_close(reason) ==
    IF reason \in {"close_cmd", "close_frame"} THEN "send_close" ELSE "ended"

\* participant.close().await of the loop, entered for a reason
WorkerClose(reason) ==
    /\ CallClose
    /\ wreason' = reason
    /\ wpc' = IF closers' > closers THEN "close_wait" ELSE after_close(reason)

\* Where the loop goes when a text frame does not deserialize: the ? returns
\* the error to handle_socket
after_parse_error_continues == "select"

after_parse_error == "failed"

\* Participant::join and Participant::send_message called by the worker
Forward(m) ==
    IF (IF m.kind = "Join" THEN join_sends(state) ELSE message_sends(state)) /\ ReceiverAlive
    THEN CallSend(m)
    ELSE UNCHANGED <<poolVars, actorVars>>

\* select!: receiver.next() yields a text frame
WorkerTakesText ==
    /\ wpc = "select"
    /\ incoming # <<>>
    /\ Head(incoming).ws = "Text"
    /\ incoming' = Tail(incoming)
    /\ LET message == from_str(Head(incoming).text) IN
          CASE message = SerdeError ->
                  /\ wpc' = after_parse_error
                  /\ wreason' = "bad_text"
                  /\ IF after_parse_error = "failed"
                     THEN DropHandle ELSE UNCHANGED <<poolVars, actorVars>>
            [] message.kind = "Close" -> WorkerClose("close_cmd")
            [] OTHER ->
                  /\ Forward(message)
                  /\ UNCHANGED <<wpc, wreason>>
    /\ UNCHANGED <<outgoing, unseen, logs, last_sent, chandle, clink, client_state>>

\* select!: receiver.next() yields a close frame
WorkerTakesClose ==
    /\ wpc = "select"
    /\ incoming # <<>>
    /\ Head(incoming).ws = "Close"
    /\ incoming' = Tail(incoming)
    /\ WorkerClose("close_frame")
    /\ UNCHANGED <<outgoing, unseen, logs, last_sent, chandle, clink, client_state>>

\* select!: receiver.next() yields an error: an error frame is sent, then
\* participant.close()
WorkerTakesError ==
    /\ wpc = "select"
    /\ incoming # <<>>
    /\ Head(incoming).ws = "Err"
    /\ CanReply
    /\ incoming' = Tail(incoming)
    /\ outgoing' = Append(outgoing, into_message)
    /\ WorkerClose("recv_err")
    /\ UNCHANGED <<unseen, logs, last_sent, chandle, clink, client_state>>

\* select!: participant_receiver.recv() yields a log message, sent with the
\* current snapshot
WorkerRelaysLog ==
    /\ wpc = "select"
    /\ logs # <<>>
    /\ CanReply
    /\ logs' = Tail(logs)
    /\ outgoing' = Append(outgoing, with_log(state))
    /\ last_sent' = <<state>>
    /\ UNCHANGED <<poolVars, actorVars, wpc, wreason, incoming, unseen, chandle, clink,
                   client_state>>

\* select!: participant_receiver.recv() yields None, the task has ended and
\* the channel is empty
WorkerChannelClosed ==
    /\ wpc = "select"
    /\ logs = <<>>
    /\ pc \in EndedPcs
    /\ WorkerClose("channel_closed")
    /\ UNCHANGED <<incoming, outgoing, unseen, logs, last_sent, chandle, clink, client_state>>

\* select!: rx.changed() returns Ok; the snapshot is sent as it is
WorkerRelaysState ==
    /\ wpc = "select"
    /\ unseen
    /\ CanReply
    /\ unseen' = FALSE
    /\ outgoing' = Append(outgoing, from_state(state))
    /\ last_sent' = <<state>>
    /\ UNCHANGED <<poolVars, actorVars, wpc, wreason, incoming, logs, chandle, clink,
                   client_state>>

\* participant.close() returns to the loop's branch
WorkerCloseReturns ==
    /\ wpc = "close_wait"
    /\ CloseReturns
    /\ wpc' = after_close(wreason)
    /\ unseen' = unseen
    /\ UNCHANGED <<wreason, incoming, outgoing, logs, last_sent, chandle, clink,
                   client_state>>

\* sender.send(Message::Close(None)) and return Ok(())
WorkerSendsClose ==
    /\ wpc = "send_close"
    /\ CanReply
    /\ outgoing' = Append(outgoing, CloseReply)
    /\ wpc' = "ended"
    /\ UNCHANGED <<poolVars, actorVars, wreason, incoming, unseen, logs, last_sent, chandle,
                   clink, client_state>>

\* handle_socket: the error of handle_socket_inner is sent as an error frame
WorkerSendsError ==
    /\ wpc = "failed"
    /\ CanReply
    /\ outgoing' = Append(outgoing, into_message)
    /\ wpc' = "ended"
    /\ UNCHANGED <<poolVars, actorVars, wreason, incoming, unseen, logs, last_sent, chandle,
                   clink, client_state>>

WorkerNext ==
    \/ WorkerTakesText
    \/ WorkerTakesClose
    \/ WorkerTakesError
    \/ WorkerRelaysLog
    \/ WorkerChannelClosed
    \/ WorkerRelaysState
    \/ WorkerCloseReturns
    \/ WorkerSendsClose
    \/ WorkerSendsError

\* ------------------------------------------------------------------------
\* The client of the connection: a remote participant
\* ------------------------------------------------------------------------

SocketOpen == wpc \in {"select", "close_wait", "send_close", "failed"}

\* spawn_remote, the receive task: a response frame replaces the snapshot,
\* a text frame that is no response is logged, a close frame ends the task
ClientReceives ==
    /\ clink = "open"
    /\ outgoing # <<>>
    /\ outgoing' = Tail(outgoing)
    /\ client_state' = IF Head(outgoing).kind \in {"state", "log"}
                       THEN Head(outgoing).state ELSE client_state
    /\ clink' = IF Head(outgoing).kind = "close" THEN "ended" ELSE clink
    /\ UNCHANGED <<poolVars, actorVars, wpc, wreason, incoming, unseen, logs, last_sent,
                   chandle>>

\* The receive task reads the end of the stream
ClientSeesEnd ==
    /\ clink = "open"
    /\ wpc = "ended"
    /\ outgoing = <<>>
    /\ clink' = "ended"
    /\ UNCHANGED <<poolVars, actorVars, wpc, wreason, incoming, outgoing, unseen, logs,
                   last_sent, chandle, client_state>>

\* The commands the client's controller sends besides Close
ClientCommands == {Msg("Leave", None)}

\* Participant::join and Participant::send_message on a clone of the
\* client's handle, and the send task
ClientSends(m) ==
    /\ chandle \in {"held", "closing"}
    /\ clink = "open"
    /\ SocketOpen
    /\ IF m.kind = "Join" THEN join_sends(client_state) ELSE message_sends(client_state)
    /\ Len(incoming) < MaxFrames
    /\ incoming' = Append(incoming, TextFrame(to_string(m)))
    /\ UNCHANGED <<poolVars, actorVars, wpc, wreason, outgoing, unseen, logs, last_sent,
                   chandle, clink, client_state>>

\* Participant::close on the client
ClientCloses ==
    /\ chandle = "held"
    /\ clink = "open"
    /\ SocketOpen
    /\ IF close_sends(client_state)
       THEN /\ Len(incoming) < MaxFrames
            /\ incoming' = Append(incoming, TextFrame(to_string(Msg("Close", None))))
            /\ chandle' = "closing"
       ELSE /\ chandle' = "dropped"
            /\ UNCHANGED incoming
    /\ UNCHANGED <<poolVars, actorVars, wpc, wreason, outgoing, unseen, logs, last_sent,
                   clink, client_state>>

\* state.wait_for(|state| !state.running) returns on the client: Ok when
\* the snapshot is not running, an error when the receive task has ended
ClientCloseReturns ==
    /\ chandle = "closing"
    /\ ~client_state.running \/ clink = "ended"
    /\ chandle' = IF ~client_state.running THEN "closed_ok" ELSE "closed_err"
    /\ UNCHANGED <<poolVars, actorVars, wpc, wreason, incoming, outgoing, unseen, logs,
                   last_sent, clink, client_state>>

\* A peer that is not a remote participant sends a frame, or its socket fails
PeerSends(f) ==
    /\ chandle = "held"
    /\ SocketOpen
    /\ Len(incoming) < MaxFrames
    /\ incoming' = Append(incoming, f)
    /\ UNCHANGED <<poolVars, actorVars, wpc, wreason, outgoing, unseen, logs, last_sent,
                   chandle, clink, client_state>>

ClientNext ==
    \/ ClientReceives
    \/ ClientSeesEnd
    \/ ClientCloseReturns
    \/ \E m \in ClientCommands : ClientSends(m)
    \/ ClientCloses
    \/ \E f \in {TextFrame(t) : t \in BadTexts} \cup {CloseFrame, SocketError} : PeerSends(f)

ConnNext ==
    /\ \/ \E cfg \in FullConfigs, c \in QueryCookies \cup {NoCookie} : Accept(cfg, c)
       \/ ConnActor
       \/ WorkerNext
       \/ ClientNext
    /\ UNCHANGED <<orchVars, auxVars>>

\* The worker starts with the cookies of its stash file
ConnInit == Init /\ stash = Stashed(MaxStashed)

\* A worker serving one connection, its actor and the client
ConnSpec == ConnInit /\ [][ConnNext]_vars

\* The receive task of the client and the returns of its handle's calls
ClientProgress == ClientReceives \/ ClientSeesEnd \/ ClientCloseReturns

\* The connection of a remote participant: its frames are those of
\* spawn_remote, the commands of the client's handle
RemoteNext ==
    /\ \/ \E cfg \in FullConfigs, c \in QueryCookies \cup {NoCookie} : Accept(cfg, c)
       \/ ConnActor
       \/ WorkerTakesText
       \/ WorkerRelaysLog
       \/ WorkerChannelClosed
       \/ WorkerRelaysState
       \/ WorkerCloseReturns
       \/ WorkerSendsClose
       \/ WorkerSendsError
       \/ ClientProgress
       \/ \E m \in ClientCommands : ClientSends(m)
       \/ ClientCloses
    /\ UNCHANGED <<orchVars, auxVars>>

\* The runtime polls the actor's task, the worker's task and the client's
\* receive task whenever they can make progress
ConnLive ==
    /\ ConnInit /\ [][RemoteNext]_vars
    /\ WF_vars(ActorNext /\ ConnActor /\ UNCHANGED <<orchVars, auxVars>>)
    /\ WF_vars(WorkerNext /\ UNCHANGED <<orchVars, auxVars>>)
    /\ WF_vars(ClientProgress /\ UNCHANGED <<orchVars, auxVars>>)

\* ------------------------------------------------------------------------
\* WebcamResolution
\* ------------------------------------------------------------------------

\* Steps made on a resolution
MaxToggles == 3

\* WebcamResolution::iter(): the variants in the order of their declaration
WebcamResolutionIter ==
    <<"Auto", "P144", "P240", "P360", "P480", "P720", "P1080", "P1440", "P2160", "P4320">>

\* The discriminant of a variant, which the derived PartialOrd compares
discriminant(r) == CHOOSE i \in 1..Len(WebcamResolutionIter) : WebcamResolutionIter[i] = r

\* iter.find(pred) over the positions ps taken in order (rev when backwards)
RECURSIVE find(_, _, _, _, _)
find(ps, i, r, greater, default) ==
    IF i > Len(ps) THEN default
    ELSE IF (IF greater THEN ps[i] > discriminant(r) ELSE ps[i] < discriminant(r))
         THEN WebcamResolutionIter[ps[i]]
         ELSE find(ps, i + 1, r, greater, default)

\* next finding the first variant that is not less than self
next_not_less(r) ==
    LET n == Len(WebcamResolutionIter) IN
    IF \E i \in 1..n : i >= discriminant(r)
    THEN WebcamResolutionIter[CHOOSE i \in 1..n :
             i >= discriminant(r) /\ \A j \in 1..n : j >= discriminant(r) => i <= j]
    ELSE "Auto"

\* WebcamResolution::next: iter().find(|x| x > self).unwrap_or(Auto)
next(r) ==
    find([i \in 1..Len(WebcamResolutionIter) |-> i], 1, r, TRUE, "Auto")

\* WebcamResolution::previous: iter().rev().find(|x| x < self).unwrap_or(P4320)
previous(r) ==
    find([i \in 1..Len(WebcamResolutionIter) |-> Len(WebcamResolutionIter) + 1 - i], 1, r,
         FALSE, "P4320")

\* A resolution is chosen, then stepped forwards and backwards
ToggleInit ==
    /\ PoolInit /\ ActorInit /\ OrchIdle /\ ConnIdle /\ StoreIdle /\ FetchIdle /\ RemoteIdle
    /\ res \in {WebcamResolutionIter[i] : i \in 1..Len(WebcamResolutionIter)}
    /\ toggles = <<>>

StepNext ==
    /\ Len(toggles) < MaxToggles
    /\ res' = next(res)
    /\ toggles' = Append(toggles, <<"next", res>>)

StepPrevious ==
    /\ Len(toggles) < MaxToggles
    /\ res' = previous(res)
    /\ toggles' = Append(toggles, <<"previous", res>>)

ToggleNext ==
    /\ StepNext \/ StepPrevious
    /\ UNCHANGED <<poolVars, actorVars, orchVars, connVars, storeVars, fetchVars, remoteVars>>

ToggleSpec == ToggleInit /\ [][ToggleNext]_vars

\* ------------------------------------------------------------------------
\* The participant store of the TUI
\* ------------------------------------------------------------------------

\* A clone of participant q is dropped, when q is a participant
drop_clone(ps, q) == IF q = 0 THEN ps ELSE [ps EXCEPT ![q].clones = @ - 1]

\* ParticipantStore::add: HashMap::insert puts the participant under its
\* name; the Participant the name had is replaced and dropped
add(ps, inner, k) == drop_clone(ps, inner[ps[k].name])

\* ParticipantStore::spawn: the participant takes a cookie of the pool and
\* the username of the cookie as its name, or a generated name when the pool
\* has no cookie, and is added to the store under its name.
StoreSpawn ==
    /\ Len(participants) < MaxParticipants
    /\ LET k == Len(participants) + 1
           r == give_cookie(available_cookies, MeetHost)
           name == IF r.borrow = NoBorrow THEN generate_random_name(k)
                   ELSE r.borrow.cookie.username
           ps == Append(participants, [name |-> name, phase |-> "running", clones |-> 1])
       IN /\ borrows[StoreHolders[k]] = NoBorrow
          /\ available_cookies' = r.pool
          /\ borrows' = [borrows EXCEPT ![StoreHolders[k]] = r.borrow]
          /\ participants' = add(ps, store_inner, k)
          /\ store_inner' = [store_inner EXCEPT ![name] = k]
    /\ UNCHANGED <<stash, nextToken, lastCall, removers>>

\* The actor of participant k, spawned without cookie, fetches one for its
\* name
StoreAuth(k) ==
    /\ k \in DOMAIN participants
    /\ participants[k].phase \in {"running", "closing"}
    /\ FetchNewCookie(StoreHolders[k], MeetHost, participants[k].name)
    /\ UNCHANGED <<participants, store_inner, removers>>

\* The cookie of an actor goes back to the pool when its task ends
ReturnStoreCookie(k) ==
    IF borrows[StoreHolders[k]] # NoBorrow THEN DropBorrow(StoreHolders[k])
    ELSE UNCHANGED poolVars

\* Backspace or Delete on the participant selected under name n: a clone is
\* taken with get and moved into a task, which calls close on it: Close is
\* sent to the actor and the task waits for running = false
KeyDelete(n) ==
    /\ store_inner[n] # 0
    /\ LET k == store_inner[n]
       IN /\ removers[k] = NoRemover
          /\ removers' = [removers EXCEPT ![k] = [stage |-> "closing", name |-> n,
                                                  removed |-> 0]]
          /\ participants' =
                [participants EXCEPT ![k].clones = @ + 1,
                                     ![k].phase = IF @ = "running" THEN "closing" ELSE @]
    /\ UNCHANGED <<poolVars, store_inner>>

\* The actor of participant k handles Close: it publishes running = false
\* and its task ends
StoreActorCloses(k) ==
    /\ k \in DOMAIN participants
    /\ participants[k].phase = "closing"
    /\ participants' = [participants EXCEPT ![k].phase = "stopped"]
    /\ ReturnStoreCookie(k)
    /\ UNCHANGED <<store_inner, removers>>

\* The task of participant k, with no clone of its handle left, takes the
\* cancellation
StoreActorCancelled(k) ==
    /\ k \in DOMAIN participants
    /\ participants[k].phase \in {"running", "closing"}
    /\ token_cancelled(participants[k].clones)
    /\ participants' = [participants EXCEPT ![k].phase = "cancelled"]
    /\ ReturnStoreCookie(k)
    /\ UNCHANGED <<store_inner, removers>>

\* close().await returns in the task started for participant k, and drops
\* the clone it was called on
StoreCloseReturns(k) ==
    /\ removers[k].stage = "closing"
    /\ participants[k].phase \in {"stopped", "cancelled"}
    /\ removers' = [removers EXCEPT ![k].stage = "remove"]
    /\ participants' = drop_clone(participants, k)
    /\ UNCHANGED <<poolVars, store_inner>>

\* store.remove(&name) of the task started for participant k: the
\* Participant the name has now leaves the store and is dropped
StoreRemove(k) ==
    /\ removers[k].stage = "remove"
    /\ LET q == store_inner[removers[k].name]
       IN /\ removers' = [removers EXCEPT ![k].stage = "done", ![k].removed = q]
          /\ participants' = drop_clone(participants, q)
          /\ store_inner' = [store_inner EXCEPT ![removers[k].name] = 0]
    /\ UNCHANGED poolVars

StoreInit == PoolInit /\ ActorInit /\ OrchIdle /\ ConnIdle /\ AuxIdle

StoreNext ==
    /\ \/ StoreSpawn
       \/ \E n \in StoreNames : KeyDelete(n)
       \/ \E k \in 1..MaxParticipants :
             \/ StoreAuth(k)
             \/ StoreActorCloses(k)
             \/ StoreActorCancelled(k)
             \/ StoreCloseReturns(k)
             \/ StoreRemove(k)
    /\ UNCHANGED <<actorVars, orchVars, connVars, toggleVars, fetchVars, remoteVars>>

StoreSpec == StoreInit /\ [][StoreNext]_vars

\* ------------------------------------------------------------------------
\* fetch_new_cookie, statement by statement, called by tasks that run on
\* the threads of one runtime
\* ------------------------------------------------------------------------

\* File::create has truncated the stash file and to_writer_pretty has not
\* written it yet
StashFileCut == \E h \in ExtHolders : fetchers[h].stage = "created"

\* HyperSessionCookieStash::load: the stash of the file, or an empty stash
\* when the file does not parse
load(cookies, cut) == IF cut THEN <<>> ELSE cookies

\* fetch_token_and_set_name(...).await returns with a new cookie, or with an
\* error that fetch_new_cookie returns by `?`
FetchToken(h, d, u) ==
    /\ fetchers[h].stage = "idle"
    /\ nextToken < FirstFreshToken + MaxFresh
    /\ \/ /\ fetchers' = [fetchers EXCEPT ![h].stage = "token",
                                         ![h].cookie = HyperSessionCookie(d, u, nextToken)]
          /\ nextToken' = nextToken + 1
       \/ /\ fetchers' = [fetchers EXCEPT ![h].stage = "failed"]
          /\ UNCHANGED nextToken
    /\ UNCHANGED <<available_cookies, borrows, stash, lastCall>>

\* let mut stash = HyperSessionCookieStash::load(&self.stash_file);
\* stash.cookies.entry(base_url).or_default().push(cookie.clone())
FetchLoad(h) ==
    /\ fetchers[h].stage = "token"
    /\ LET m1 == entry_or_default(load(stash, StashFileCut), fetchers[h].cookie.domain)
       IN fetchers' = [fetchers EXCEPT
                          ![h].stage = "loaded",
                          ![h].loaded = [m1 EXCEPT ![fetchers[h].cookie.domain] =
                                                       Append(@, fetchers[h].cookie)]]
    /\ UNCHANGED poolVars

\* stash.save(): File::create(&self.stash_file)
FetchCreate(h) ==
    /\ fetchers[h].stage = "loaded"
    /\ fetchers' = [fetchers EXCEPT ![h].stage = "created"]
    /\ UNCHANGED poolVars

\* stash.save(): serde_json::to_writer_pretty(&file,
\* &self.with_whitelisted_domains()), and the BorrowedCookie returned to h
FetchWrite(h) ==
    /\ fetchers[h].stage = "created"
    /\ borrows[h] = NoBorrow
    /\ stash' = with_whitelisted_domains(fetchers[h].loaded)
    /\ borrows' = [borrows EXCEPT ![h] = BorrowedCookie(fetchers[h].cookie.domain,
                                                        fetchers[h].cookie)]
    /\ fetchers' = [fetchers EXCEPT ![h].stage = "saved"]
    /\ UNCHANGED <<available_cookies, nextToken, lastCall>>

FetchInit == PoolInit /\ ActorInit /\ OrchIdle /\ ConnIdle /\ AuxIdle

FetchNext ==
    /\ \E h \in ExtHolders :
          \/ \E d \in Domains, u \in Usernames : FetchToken(h, d, u)
          \/ FetchLoad(h)
          \/ FetchCreate(h)
          \/ FetchWrite(h)
    /\ UNCHANGED <<actorVars, orchVars, connVars, toggleVars, storeVars, remoteVars>>

FetchSpec == FetchInit /\ [][FetchNext]_vars

\* ------------------------------------------------------------------------
\* The cookie of a remote participant on the client
\* ------------------------------------------------------------------------

\* Participant::spawn_remote and spawn_remote up to the connection: the
\* cookie of the query is borrowed from the client's manager (or fetched by
\* ensure_cookie) and owned by the future of spawn_remote
RemoteAccept ==
    /\ \E cfg \in FullConfigs, c \in QueryCookies :
          /\ Accept(cfg, c)
          /\ cborrow' = c
    /\ UNCHANGED cpool

\* Drop for BorrowedCookie on the client
ReturnClientCookie ==
    /\ cborrow # NoCookie
    /\ cpool' = push_back(cpool, cborrow)
    /\ cborrow' = NoCookie

\* The last clone of the client's handle is dropped; the send task reads the
\* end of the command channel and ends
ClientDrops ==
    /\ chandle = "held"
    /\ chandle' = "dropped"
    /\ UNCHANGED <<poolVars, actorVars, wpc, wreason, incoming, outgoing, unseen, logs,
                   last_sent, clink, client_state>>

\* The client's task takes the cancellation of its token: the future of
\* spawn_remote is dropped with the cookies it owns.  The JoinHandles of the
\* send task and the receive task are dropped with it, which detaches the
\* tasks: the receive task keeps its half of the socket.
ClientCancelled ==
    /\ chandle = "dropped"
    /\ ReturnClientCookie
    /\ UNCHANGED <<poolVars, actorVars, connVars>>

\* The select! of spawn_remote returns because the receive task has ended;
\* `let _ = (cookie, maybe_new_cookie)` drops the cookies
ClientSelectReturns ==
    /\ clink = "ended"
    /\ ReturnClientCookie
    /\ UNCHANGED <<poolVars, actorVars, connVars>>

\* The steps of the worker, its actor and the client's tasks and handle on
\* the connection of a remote participant
RemoteSteps ==
    \/ ConnActor
    \/ WorkerTakesText
    \/ WorkerRelaysLog
    \/ WorkerChannelClosed
    \/ WorkerRelaysState
    \/ WorkerCloseReturns
    \/ WorkerSendsClose
    \/ WorkerSendsError
    \/ ClientProgress
    \/ \E m \in ClientCommands : ClientSends(m)
    \/ ClientCloses
    \/ ClientDrops

RemoteCookieNext ==
    /\ \/ RemoteAccept
       \/ RemoteSteps /\ UNCHANGED remoteVars
       \/ ClientCancelled
       \/ ClientSelectReturns
    /\ UNCHANGED <<orchVars, toggleVars, storeVars, fetchVars>>

RemoteCookieSpec == ConnInit /\ [][RemoteCookieNext]_vars

TypeOK ==
    /\ pc \in AlivePcs \cup EndedPcs \cup {"unspawned", "rejected"}
    /\ handles \in 0..MaxHandles
    /\ closers \in 0..handles
    /\ Len(queue) <= MaxQueue
    /\ attempt \in 0..MaxRetries
    /\ \A d \in DOMAIN available_cookies : Len(available_cookies[d]) <= MaxPoolQueue + MaxFresh

\* ------------------------------------------------------------------------
\* Properties
\* ------------------------------------------------------------------------

\* The terminal paths of an actor that reached handle_actions
TerminalPaths == {"closed", "detached", "join_failed"}

\* C1: on each terminal path of an actor that reached its command loop (a
\* handled Close, a detached event, a failed initial join) running = false
\* has been written exactly once, after the one write of running = true, and
\* nothing is written to it afterwards.
C1_RunningFalseWrittenOnce ==
    exit \in TerminalPaths => (writes = <<TRUE, FALSE>> /\ ~state.running)

C1_Witness == pc = "done" /\ exit = "closed" /\ writes = <<TRUE, FALSE>>

\* C2: the published snapshot has running = true exactly while the actor's
\* handle_actions is executing, also after the loop has ended by an error
\* inside close() or by cancellation.
C2_RunningIffLoopExecuting == state.running <=> pc \in HandleActionsPcs

\* Ways run can end before handle_actions, and the handle being dropped
LaunchFailures == {"auth_failed", "launch_failed", "page_failed", "cancelled"}

\* C3: an actor that is launching eventually publishes running = true, unless
\* cookie acquisition, browser launch or page acquisition fails or its
\* handle is dropped.
C3_EventuallyRunning ==
    (pc \in LaunchPcs) ~> (state.running \/ exit \in LaunchFailures \/ handles = 0)

C3_Witness == state.running /\ pc \in JoinPcs /\ joinCtx = "initial" /\ handles >= 1

\* C4: the command queue changes only by a send appending at its back or by
\* the actor taking its front, which becomes the command handled; the actor
\* takes a command only when no command is being handled and the state
\* refresh of the command taken before has run.
C4_InOrderOneAtATime ==
    [][queue' # queue =>
          \/ \E m \in ParticipantMessage : queue' = Append(queue, m)
          \/ /\ queue # <<>>
             /\ queue' = Tail(queue)
             /\ cur' = Head(queue)
             /\ cur = NoMsg
             /\ refreshed
             /\ ~refreshed']_vars

C4_Witness == pc = "handle" /\ cur # NoMsg /\ Len(queue) >= 1 /\ ~refreshed

\* C5 as stated: handling Join while the snapshot says joined makes no
\* browser call and leaves the published state as it was before the command.
C5_JoinWhileJoinedLeavesState ==
    [][(joinCtx = "already_joined" /\ pc \in HandleActionsPcs) =>
          (ops' = {} /\ state' = state)]_vars

\* C5 amended: handling Join while the snapshot says joined makes no cookie
\* set, no navigation and no click, and join() publishes nothing; the state
\* refresh that follows the command republishes what the page's controls
\* show, so the snapshot keeps its value when the controls still show it, and
\* running and username are never changed.
C5_JoinWhileJoinedOnlyRefreshes ==
    [][(joinCtx = "already_joined" /\ pc \in HandleActionsPcs) =>
          /\ pc = "refresh"
          /\ ops = {} /\ ops' = {}
          /\ page' = page \/ pc' = pc
          /\ state'.running = state.running /\ state'.username = state.username
          /\ state' # state => (pc' = "wait" /\ state'.joined = page.joined
                                /\ state'.muted = page.muted)
          /\ (state.joined = page.joined /\ state.muted = page.muted) => state' = state]_vars

C5_Witness == joinCtx = "already_joined" /\ pc = "refresh" /\ state.joined /\ ~page.joined

\* C6: while the snapshot has running = false no step enqueues a Close or
\* starts waiting for the snapshot, and a step that consumes a handle clone
\* (a close() call returning at once, or a drop) changes neither the
\* published state nor the queue nor the actor's position.
C6_CloseWhenNotRunningIsNoop ==
    [][~state.running =>
          /\ queue' # Append(queue, Msg("Close", None))
          /\ closers' <= closers
          /\ handles' < handles => (state' = state /\ queue' = queue /\ pc' = pc)]_vars

C6_Witness == ~state.running /\ exit = "closed" /\ handles >= 1 /\ closers = 0

\* Positions of a cookie in the queues, and its holders
QueuePositions(c) ==
    {p \in UNION {{<<d, i>> : i \in 1..Len(available_cookies[d])} :
                       d \in DOMAIN available_cookies} :
        available_cookies[p[1]][p[2]] = c}

HoldersOf(c) == {h \in Holders : borrows[h].cookie = c}

KnownCookies ==
    {borrows[h].cookie : h \in {k \in Holders : borrows[k] # NoBorrow}}
    \cup UNION {{available_cookies[d][i] : i \in 1..Len(available_cookies[d])} :
                   d \in DOMAIN available_cookies}

\* C7: every cookie of the manager is either once in one domain queue or
\* held by one BorrowedCookie, never both and never by two holders.
C7_OneHolderOrQueued ==
    \A c \in KnownCookies : Cardinality(QueuePositions(c)) + Cardinality(HoldersOf(c)) = 1

\* C8: borrowing the only cookie of a domain, dropping the borrow and
\* borrowing again gives a cookie with the same username; give_cookie on a
\* domain with no cookie gives None and leaves the contents of every queue
\* as they were.
C8_BorrowDropBorrow ==
    \A d \in Domains :
        /\ Len(Contents(available_cookies, d)) = 1 =>
              LET g1 == give_cookie(available_cookies, d)
                  g2 == give_cookie(drop_borrow(g1.pool, g1.borrow), d)
              IN /\ g1.borrow # NoBorrow
                 /\ g2.borrow # NoBorrow
                 /\ g2.borrow.cookie.username = g1.borrow.cookie.username
                 /\ g1.borrow.cookie.username = available_cookies[d][1].username
        /\ Contents(available_cookies, d) = <<>> =>
              LET g == give_cookie(available_cookies, d)
              IN /\ g.borrow = NoBorrow
                 /\ \A e \in Domains : Contents(g.pool, e) = Contents(available_cookies, e)

C8_Witness ==
    /\ \A h \in Holders : borrows[h] = NoBorrow
    /\ \E d \in DOMAIN available_cookies :
          /\ Len(available_cookies[d]) = 1
          /\ available_cookies[d][1].cookie >= FirstFreshToken
    /\ \E e \in Domains : e \notin DOMAIN available_cookies

CookieQueued(c) == QueuePositions(c) # {}

\* C9: the cookie a local actor holds is in no queue while the actor's
\* command loop runs, and once the actor's task has ended the cookie it held
\* is no longer held and is the last of its domain's queue.
C9_ActorCookieHeldThenReturned ==
    /\ (pc \in LoopPcs /\ ActorBorrow # NoBorrow) => ~CookieQueued(ActorBorrow.cookie)
    /\ pc \in EndedPcs =>
          /\ ActorBorrow = NoBorrow
          /\ lastCall.op = "drop" =>
                LET q == Contents(available_cookies, lastCall.domain)
                IN q # <<>> /\ q[Len(q)] = lastCall.borrow.cookie

\* C10: a domain's queue changes only by its front going to a new borrow,
\* the rest staying in order, or by the cookie of a dropped borrow being
\* appended at its back.
C10_FirstInFirstOut ==
    [][\A d \in Domains :
          LET q == Contents(available_cookies, d)
              r == Contents(available_cookies', d)
          IN r # q =>
                \/ /\ q # <<>>
                   /\ r = Tail(q)
                   /\ \E h \in Holders : /\ borrows[h] = NoBorrow
                                          /\ borrows'[h] = BorrowedCookie(d, Head(q))
                \/ \E h \in Holders : /\ borrows[h] # NoBorrow
                                       /\ borrows[h].domain = d
                                       /\ borrows'[h] = NoBorrow
                                       /\ r = Append(q, borrows[h].cookie)]_vars

InStash(c) == \E d \in DOMAIN stash : \E i \in 1..Len(stash[d]) : stash[d][i] = c

\* C11: the persisted stash holds only whitelisted domains; every cookie
\* fetched so far is held or queued in memory, and one fetched for a domain
\* that is not whitelisted is not in the persisted stash.
C11_OnlyWhitelistedPersisted ==
    /\ \A d \in DOMAIN stash : Whitelisted(d)
    /\ \A t \in FirstFreshToken..(nextToken - 1) :
          \E c \in KnownCookies :
              /\ c.cookie = t
              /\ ~Whitelisted(c.domain) => ~InStash(c)
              /\ c \in {borrows[h].cookie : h \in Holders} \/ CookieQueued(c)

C11_Witness ==
    /\ \A h \in Holders : borrows[h] = NoBorrow
    /\ DevHost \in DOMAIN available_cookies
    /\ \E i \in 1..Len(available_cookies[DevHost]) :
          /\ available_cookies[DevHost][i].cookie >= FirstFreshToken
          /\ ~InStash(available_cookies[DevHost][i])
    /\ \E c \in KnownCookies : c.cookie >= FirstFreshToken /\ InStash(c)

\* C12: page acquisition makes at most 6 attempts: while the task is in
\* create_page_retry a failed attempt is counted as a retry only when fewer
\* than 5 retries were made and the task then tries again; the task fails with
\* the page error only on the failure that follows the 5th retry, and makes
\* no attempt after it; a success leaves create_page_retry at once, with
\* handle_actions entered.
C12_AtMostSixPageAttempts ==
    [][pc = "page" =>
          /\ attempt <= 5
          /\ attempt' # attempt /\ pc' = "page" => attempt < 5 /\ attempt' = attempt + 1
          /\ exit' = "page_failed" => attempt = 5 /\ pc' = "failed"
          /\ pc' \in HandleActionsPcs => state'.running /\ exit' = None]_vars

\* The sixth attempt has failed and the task has ended with its error
C12_Witness == exit = "page_failed" /\ pc = "failed"

\* The value the three layers give field f of participant index: the spec's
\* initial value, else the defaults value, else the built-in one
Layered(index, f) ==
    LET specs == orch_config.participants_specs
        initial == IF specs # NoneOpt /\ index + 1 \in DOMAIN specs[1]
                   THEN specs[1][index + 1].initial ELSE NoneOpt
    IN IF initial # NoneOpt /\ initial[1][f] # NoneOpt THEN initial[1][f][1]
       ELSE IF orch_config.defaults # NoneOpt /\ orch_config.defaults[1][f] # NoneOpt
            THEN orch_config.defaults[1][f][1]
       ELSE ClientConfigDefault[f]

C14_RoundRobinWorkers ==
    effective # <<>> /\ Len(orch_config.workers) >= 1 =>
        LET i == effective[1]
            N == Len(orch_config.workers)
        IN /\ \E q \in 0..i, k \in 0..(N - 1) :
                 /\ i = q * N + k
                 /\ effective[2].remote_url = orch_config.workers[k + 1]
           /\ N = 3 /\ i <= 4 =>
                 effective[2].remote_url =
                     <<"ws://worker-a", "ws://worker-b", "ws://worker-c",
                       "ws://worker-a", "ws://worker-b">>[i + 1]

\* The fifth participant of three workers is resolved to the second worker
C14_Witness ==
    /\ effective # <<>>
    /\ Len(orch_config.workers) = 3
    /\ effective[1] = 4
    /\ effective[2].remote_url = "ws://worker-b"

\* The wait_to_join_seconds of participant i, 0 when not given
DelayOf(i) ==
    IF orch_config.participants_specs[1][i + 1].wait_to_join_seconds = NoneOpt THEN 0
    ELSE orch_config.participants_specs[1][i + 1].wait_to_join_seconds[1]

\* C15: a configuration with no worker or with no participant spec fails
\* validation, and the orchestrator then ends before any cookie is fetched,
\* any connection is opened or any task is spawned.
C15_InvalidConfigAbortsFirst ==
    /\ rpc # "idle" =>
          (validate(orch_config) # "ok") =
              \/ Len(orch_config.workers) = 0
              \/ orch_config.participants_specs = NoneOpt
              \/ Len(orch_config.participants_specs[1]) = 0
    /\ rpc \notin {"idle", "main"} /\ validate(orch_config) # "ok" =>
          /\ rpc = "config_error"
          /\ nextToken = FirstFreshToken
          /\ \A h \in Holders : borrows[h] = NoBorrow
          /\ \E n \in 0..MaxStashed : stash = Stashed(n)
          /\ tasks = <<>>
          /\ joined_participants = <<>>

\* Validation has rejected a configuration that has workers and no
\* participant spec
C15_Witness ==
    /\ rpc = "config_error"
    /\ Len(orch_config.workers) >= 1
    /\ orch_config.participants_specs = Some(<<>>)

\* C16: participant i is not started by a tick whose elapsed whole seconds
\* are below its wait_to_join_seconds (0 when absent), and a tick whose
\* elapsed whole seconds have reached it leaves the participant started,
\* unless the participant's own cookie fetch has failed.
C16_StartedAtFirstDueTick ==
    rpc \notin {"idle", "main", "config_error"} =>
        \A i \in 0..(Len(tasks) - 1) :
            /\ started_at[i + 1] # NoneOpt => started_at[i + 1][1] >= DelayOf(i)
            /\ /\ elapsed_seconds >= DelayOf(i)
               /\ ~(rpc = "scan" /\ idx <= i)
               /\ ~(rpc = "returned_err" /\ effective[1] = i)
               => contains_idx(joined_participants, i)

\* C17: run returns only after every index has been scheduled and every
\* spawned task has finished.
C17_ReturnsAfterAllFinished ==
    rpc \in {"returned_ok", "returned_err"} =>
        /\ \A i \in 0..(Len(tasks) - 1) : contains_idx(joined_participants, i)
        /\ \A i \in 0..(Len(tasks) - 1) : tasks[i + 1] \in EndedTasks

\* C18: the failure of one participant, of its cookie fetch or of its worker
\* connection, does not abort the run: while some participant is not
\* scheduled or some spawned task has not ended, run has not returned.
C18_OneFailureDoesNotAbort ==
    /\ rpc # "returned_err"
    /\ (\E i \in 0..(Len(tasks) - 1) : tasks[i + 1] = "failed") /\ rpc \in {"returned_ok", "returned_err"} =>
          \A i \in 0..(Len(tasks) - 1) : tasks[i + 1] \in EndedTasks

\* C19: a query encoded into the connection url and decoded by the worker
\* is decoded without error and equals the query sent on every field.
C19_UrlRoundTrip ==
    received # <<>> =>
        /\ received[2].ok
        /\ \A k \in 1..Len(QueryFields) :
              received[2].query[QueryFields[k]] = received[1][QueryFields[k]]
        /\ DOMAIN received[2].query = DOMAIN received[1]

\* A query with a cookie and the Url variant has made the round trip, its
\* payload holding a '+' or a '/' that the url escapes
C19_Witness ==
    /\ received # <<>>
    /\ received[1].cookie # NoCookie
    /\ received[1].fake_media # NoneOpt
    /\ received[1].fake_media[1].variant = "Url"
    /\ received[2].ok
    /\ received[2].query.fake_media[1].variant = "Url"
    /\ \E k \in DOMAIN into_url(received[1]).payload :
          into_url(received[1]).payload[k] = 37

\* C25: whenever the actor's run has resolved, with Ok or with an error,
\* the browser event task spawned for it has run to completion.
C25_PumpDoneBeforeRunResolves == pc \in {"done", "failed"} => pump # "running"

\* C26: after a failure of the join() handle_actions starts with, the actor
\* kills the browser, writes running = false and run completes without an
\* error; no command of the queue is handled.
C26_InitialJoinFailureAbsorbed ==
    /\ joinCtx = "initial" =>
          /\ pc \in JoinPcs \cup {"kill_join_failed", "await_pump", "done", "cancelled"}
          /\ cur = NoMsg /\ refreshed
    /\ exit = "join_failed" =>
          /\ pc \in {"await_pump", "done"}
          /\ ~browser
          /\ ~state.running /\ writes = <<TRUE, FALSE>>
          /\ joinCtx = "initial"

\* The initial join has failed, run has completed with Ok and a command
\* sent meanwhile is still in the queue
C26_Witness == exit = "join_failed" /\ pc = "done" /\ queue # <<>>

\* C27: a detached event that waits while the actor is at its select! is
\* taken before any queued command: the actor kills the browser, leaves the
\* loop, writes running = false and run completes without an error, and no
\* command is taken from the queue on the way.
C27_DetachBeforeCommands ==
    /\ detached => pc \in {"wait", "cancelled"} /\ cur = NoMsg
    /\ pc = "kill_detached" => cur = NoMsg /\ state.running
    /\ exit = "detached" =>
          /\ pc \in {"await_pump", "done"}
          /\ ~browser
          /\ ~state.running
          /\ cur = NoMsg /\ refreshed

\* The actor has ended by a detached event with a command left in the queue
C27_Witness == exit = "detached" /\ pc = "done" /\ queue # <<>>

\* C28: while a command other than Close is handled and after its handler
\* has returned, with an error or without, running stays true; the actor is
\* back at its select! only after the state refresh of the command has run.
C28_HandlerErrorKeepsRunning ==
    /\ pc \in {"handle", "refresh"} => state.running /\ cur.kind # "Close"
    /\ pc = "refresh" => ~refreshed
    /\ pc = "wait" => refreshed /\ cur = NoMsg /\ state.running

\* The handler of Leave has failed (no click was made, the page still shows
\* the call) and the state refresh is about to run
C28_Witness ==
    /\ pc = "refresh"
    /\ cur.kind = "Leave"
    /\ ops = {}
    /\ page.joined
    /\ state.running

\* C29: a task that has taken the cancellation handles no further command
\* and publishes nothing more, wherever run was; from the moment the token
\* is cancelled run makes no step; and once run has completed, a
\* cancellation changes neither the published state nor the way the task
\* ended.
C29_CancelOrCompleteFirstWins ==
    [][/\ pc = "cancelled" =>
             /\ pc' = pc /\ state' = state /\ writes' = writes
             /\ cur' = cur /\ exit' = exit /\ page' = page
             /\ Len(queue') >= Len(queue)
       /\ handles = 0 /\ pc \in AlivePcs =>
             /\ pc' \in {pc, "cancelled"}
             /\ state' = state /\ writes' = writes /\ cur' = cur /\ queue' = queue
       /\ pc \in {"done", "failed"} =>
             pc' = pc /\ state' = state /\ writes' = writes /\ exit' = exit]_vars

\* The task was cancelled in the middle of a command
C29_Witness == pc = "cancelled" /\ cur # NoMsg /\ handles = 0

\* C30: the connection of a task stays open while the task holds it, is
\* closed when the task has ended, and no connection is open once run has
\* returned.
C30_ConnectionsClosedWithTasks ==
    \A i \in 0..(Len(tasks) - 1) :
        /\ tasks[i + 1] \in EndedTasks => ~ConnectionOpen(i)
        /\ rpc \in {"returned_ok", "returned_err"} => ~ConnectionOpen(i)

\* C22: the worker sends a state-only response frame only when the actor's
\* ParticipantState differs from the state of the response frame it sent last
\* on the connection; a refresh that publishes an identical snapshot sends
\* no frame.
C22_StateFrameOnlyOnChange ==
    [][(/\ Len(outgoing') > Len(outgoing)
        /\ outgoing'[Len(outgoing')].kind = "state")
       => last_sent # <<outgoing'[Len(outgoing')].state>>]_vars

\* C24: when the worker takes a text frame that does not deserialize to a
\* ParticipantMessage, nothing is sent to the actor and its handle is
\* dropped; the worker's next step sends an error frame and ends the
\* connection; after that no frame is sent, and the actor takes no step
\* but that of its cancellation.
C24_BadTextEndsConnection ==
    [][/\ (/\ wpc = "select"
           /\ incoming # <<>>
           /\ Head(incoming).ws = "Text"
           /\ from_str(Head(incoming).text) = SerdeError
           /\ incoming' = Tail(incoming))
          => (queue' = queue /\ outgoing' = outgoing /\ wpc' = "failed" /\ handles' = 0)
       /\ (wreason = "bad_text" /\ wpc = "failed")
          => /\ queue' = queue /\ handles' = 0 /\ pc' \in {pc, "cancelled"}
             /\ \/ wpc' = "failed" /\ Len(outgoing') <= Len(outgoing)
                \/ wpc' = "ended" /\ outgoing' = Append(outgoing, into_message)
       /\ (wreason = "bad_text" /\ wpc = "ended")
          => /\ queue' = queue /\ handles' = 0 /\ pc' \in {pc, "cancelled"}
             /\ wpc' = "ended" /\ Len(outgoing') <= Len(outgoing)]_vars

\* A frame that is not a command ended the connection: the actor, which was
\* waiting for commands, is cancelled, and the client has read the error
C24_Witness ==
    /\ wreason = "bad_text" /\ wpc = "ended"
    /\ pc = "cancelled" /\ state.running /\ state.joined
    /\ outgoing = <<>> /\ clink = "ended"

\* The worker takes a text frame that is the JSON of Close
TakesCloseCommand ==
    /\ wpc = "select"
    /\ incoming # <<>>
    /\ Head(incoming).ws = "Text"
    /\ from_str(Head(incoming).text) = Msg("Close", None)
    /\ incoming' = Tail(incoming)

\* After a Close command frame the worker sends nothing to the actor, the
\* step that ends its loop sends the close frame, and the loop stays ended
AfterCloseCommand ==
    wreason = "close_cmd" =>
        /\ Len(queue') <= Len(queue)
        /\ wpc = "ended" => wpc' = "ended" /\ Len(outgoing') <= Len(outgoing)
        /\ wpc # "ended" /\ wpc' = "ended" => outgoing' = Append(outgoing, CloseReply)

\* C21 as stated: when the worker receives a Close command frame, Close is
\* sent to the actor; the worker then sends a close frame and ends its loop,
\* and sends no later command to the actor.
C21_CloseReachesActor ==
    /\ [][TakesCloseCommand => queue' = Append(queue, Msg("Close", None))]_vars
    /\ [][AfterCloseCommand]_vars
    /\ (wreason = "close_cmd") ~> (wpc = "ended")

\* C21, amended: when the worker receives a Close command frame, Close is
\* sent to the actor if the actor's snapshot has running = true and its
\* task still receives commands; otherwise nothing is sent to the actor and
\* the worker's handle is dropped at once.  In both cases the worker then
\* sends a close frame and ends its loop, and sends no later command to the
\* actor.
C21_CloseEndsLoop ==
    /\ [][TakesCloseCommand =>
            IF close_sends(state) /\ ReceiverAlive
            THEN queue' = Append(queue, Msg("Close", None)) /\ wpc' = "close_wait"
            ELSE queue' = queue /\ wpc' = "send_close" /\ handles' = 0]_vars
    /\ [][AfterCloseCommand]_vars
    /\ (wreason = "close_cmd") ~> (wpc = "ended")

\* Close was taken by the actor, which closed its browser; the loop has
\* ended and a command frame the client sent later was left unread
C21_Witness ==
    /\ wreason = "close_cmd" /\ wpc = "ended"
    /\ exit = "closed" /\ incoming # <<>>

\* C23: after the client sent Close for a remote participant whose snapshot
\* had running = true, the client's wait for running = false returns Ok: the
\* snapshot of the client shows running = false.  Connections the worker
\* ended for another reason than that Close are left aside.
C23_ClientSeesNotRunning ==
    (chandle = "closing") ~>
        \/ chandle = "closed_ok" /\ ~client_state.running
        \/ wreason \notin {None, "close_cmd"}

\* The result of step k of toggles
StepResult(k) == IF k = Len(toggles) THEN res ELSE toggles[k + 1][2]

\* C32: next steps through Auto, P144, P240, P360, P480, P720, P1080, P1440,
\* P2160, P4320 in that order and wraps from P4320 to Auto; previous steps
\* through the same cycle backwards and wraps from Auto to P4320; for every
\* resolution r, previous(next(r)) = r and next(previous(r)) = r.
C32_ResolutionCycle ==
    /\ \A k \in 1..Len(toggles) :
          LET n == Len(WebcamResolutionIter)
              at == discriminant(toggles[k][2])
          IN  StepResult(k) = IF toggles[k][1] = "next"
                              THEN WebcamResolutionIter[(at % n) + 1]
                              ELSE WebcamResolutionIter[((at + n - 2) % n) + 1]
    /\ previous(next(res)) = res
    /\ next(previous(res)) = res

\* Both wraps were taken: next from P4320, then previous from Auto
C32_Witness ==
    /\ toggles = <<<<"next", "P4320">>, <<"previous", "Auto">>>>
    /\ res = "P4320"

\* The cookie fetched for index i has been returned to the pool
ReturnedFor(i) ==
    \E k \in 1..Len(Contents(available_cookies, orch_config.session_url)) :
        LET c == Contents(available_cookies, orch_config.session_url)[k]
        IN c.username = effective_participant(orch_config, i).username
           /\ c.cookie >= FirstFreshToken

\* C31: the cookie acquired for a participant of the orchestrator is owned
\* by the participant's task for its whole lifetime: from the acquisition
\* until the task ends the task holds it and it is not in the pool, and it
\* is in the pool once the task has ended, also after a failed connection.
C31_TaskOwnsCookie ==
    RuntimeLives =>
        \A i \in 0..(Len(tasks) - 1) :
            LET b == borrows[OrchHolders[i + 1]] IN
            /\ tasks[i + 1] \in {"spawned", "holding"} =>
                  b # NoBorrow /\ ~CookieQueued(b.cookie)
            /\ tasks[i + 1] \in EndedTasks => b = NoBorrow /\ ReturnedFor(i)

\* The fake_media the three layers give index i: the initial block's if set,
\* else the defaults block's if set, else none
LayeredFakeMedia(i) ==
    LET initial == participant_spec(orch_config, i).initial
    IN IF initial # NoneOpt /\ initial[1].fake_media # NoneOpt THEN initial[1].fake_media
       ELSE IF orch_config.defaults # NoneOpt THEN orch_config.defaults[1].fake_media
       ELSE NoneOpt

\* C35: the fake_media of the resolved participant i is the fake_media of the
\* initial block of its spec if set, else the fake_media of the defaults block
\* if set, else none; a spec whose initial block sets no fake_media still
\* inherits that of the defaults block.
C35_FakeMediaPrecedence ==
    effective # <<>> /\ effective[2] # Panic =>
        effective[2].fake_media = LayeredFakeMedia(effective[1])

\* the error effective_participant builds for a missing worker
WorkersEmptyError == [err |-> "workers must be non-empty; validate config before use"]

\* C36: on a configuration with an empty worker list effective_participant
\* returns the error 'workers must be non-empty; validate config before use'
\* for every index, and fails in no other way before it.
C36_EmptyWorkersIsError ==
    effective # <<>> /\ Len(orch_config.workers) = 0 =>
        effective[2] = WorkersEmptyError

\* The awaits of join() that apply the feature settings of the configuration
SettingsPcs == {"join_settings", "join_settings_lite"}

\* C34: during Join the join control is clicked, then the joined marker is
\* observed, then the pending feature settings are applied, then the state
\* snapshot is updated; no feature setting is applied before the joined
\* marker has been observed.
C34_SettingsAfterMarker ==
    [][/\ (pc' = "join_wait_marker" /\ pc' # pc) => pc = "join_click"
       /\ (pc' \in SettingsPcs /\ pc' # pc) => pc = "join_wait_marker" /\ page.joined
       /\ (pc' = "join_update" /\ pc' # pc) => pc \in SettingsPcs]_vars

\* C34, as the code has it: the join control is clicked, then the joined
\* marker is observed, then the state snapshot is updated.  The lite frontend
\* applies its feature settings between the marker and the update; the full
\* frontend applies them in the lobby, after the join control is found and
\* before it is clicked.
C34_JoinOrder ==
    [][pc' # pc =>
       /\ pc' = "join_click" =>
             pc = (IF participant_config.lite THEN "join_wait_button" ELSE "join_settings")
       /\ pc' = "join_wait_marker" => pc = "join_click"
       /\ pc' = "join_settings_lite" =>
             participant_config.lite /\ pc = "join_wait_marker" /\ page.joined
       /\ pc' = "join_settings" =>
             ~participant_config.lite /\ pc = "join_wait_button" /\ "click" \notin ops
       /\ pc' = "join_update" =>
             pc = (IF participant_config.lite THEN "join_settings_lite"
                   ELSE "join_wait_marker")]_vars

\* The join of a full frontend reaches its update of the snapshot with the
\* noise suppression of the configuration applied in the lobby
C34_Witness ==
    /\ pc = "join_update"
    /\ ~participant_config.lite
    /\ "click" \in ops
    /\ participant_config.noise_suppression # "Disabled"
    /\ page.noise_suppression = participant_config.noise_suppression

\* The indices whose task has been spawned
StartedTasks == {i \in 0..(Len(tasks) - 1) : tasks[i + 1] # "none"}

\* C37: run starts each participant index once: after any number of ticks no
\* index has more than one cookie acquisition, connection task or entry in the
\* joined list, and when the scheduling loop has ended every index of
\* 0..total has exactly one of each.
C37_EachIndexStartedOnce ==
    rpc \in {"scan", "join_all", "returned_ok"} =>
        /\ \A k, l \in 1..Len(joined_participants) :
              joined_participants[k] = joined_participants[l] => k = l
        /\ \A k \in 1..Len(joined_participants) :
              joined_participants[k] \in StartedTasks
        /\ Cardinality(StartedTasks) = Len(joined_participants)
        /\ nextToken - FirstFreshToken = Len(joined_participants)
        /\ rpc \in {"join_all", "returned_ok"} =>
              StartedTasks = 0..(total_participants(orch_config) - 1)

\* The loop has ended after more than one tick: the first participant was
\* started in an earlier tick than the second and passed over since
C37_Witness ==
    /\ rpc = "join_all"
    /\ Len(joined_participants) = 2
    /\ started_at[1] # NoneOpt /\ started_at[2] # NoneOpt
    /\ started_at[1][1] < started_at[2][1]

\* C38: the actor is cancelled through its drop guard only when the last
\* clone of its handle is dropped: a task takes the cancellation only when no
\* clone is left, and a drop that leaves a clone (the one in the store, while
\* another was used for a command or for close) does not stop the actor.
C38_LastCloneCancels ==
    [][/\ (pc' = "cancelled" /\ pc # "cancelled") => handles = 0 /\ handles' = 0
       /\ (handles' < handles /\ handles' >= 1) =>
             pc' = pc /\ exit' = exit /\ browser' = browser /\ state' = state]_vars

\* A running actor was cancelled when its last clone was dropped
C38_Witness ==
    pc = "cancelled" /\ exit = "cancelled" /\ handles = 0 /\ closers = 0 /\ state.running

\* C39: in the close-then-remove flow of a participant named n, a different
\* participant added to the store under n in the meantime (its name is the
\* username of the cookie the first one returned) is still in the store
\* afterwards and is not cancelled: the flow removes nobody but its own
\* participant.
C39_NewcomerKept ==
    \A k \in 1..MaxParticipants :
        /\ removers[k].stage = "done" => removers[k].removed \in {0, k}
        /\ \A q \in DOMAIN participants :
              (removers[k].removed = q /\ q # k) => participants[q].phase # "cancelled"

\* Whether cookie c is in the stash file
Persisted(c) ==
    \E k \in 1..Len(Contents(stash, c.domain)) : Contents(stash, c.domain)[k] = c

\* C40: two fetch_new_cookie calls for allow-listed domains that run
\* concurrently both end up in the persisted stash: once no call is under
\* way, the cookie of every call that has saved is in the stash file, and so
\* is every cookie the file held at start (the pool, from which nothing is
\* given here, still holds those).
C40_ConcurrentFetchesPersist ==
    (\A h \in ExtHolders :
        \/ fetchers[h].stage \in {"idle", "failed"}
        \/ fetchers[h].stage = "saved" /\ Whitelisted(fetchers[h].cookie.domain)) =>
        /\ \A h \in ExtHolders :
              fetchers[h].stage = "saved" => Persisted(fetchers[h].cookie)
        /\ \A k \in 1..Len(Contents(available_cookies, MeetHost)) :
              Persisted(Contents(available_cookies, MeetHost)[k])

\* The worker-side participant of the connection is alive: its task runs
\* and its token is not cancelled
RemoteAlive == pc \in AlivePcs /\ ~token_cancelled(handles)

\* C33: as long as the worker-side participant started by spawn_remote is
\* alive, the cookie used for it is owned on the client and is not in the
\* client's pool, where give_cookie would hand it to another participant;
\* also after the client's handle is dropped and after one of the client's
\* send and receive tasks has ended.
C33_RemoteCookieHeld ==
    RemoteAlive => cborrow # NoCookie /\ cpool = <<>>

\* C20: a connection whose query carries no cookie is not ended with an
\* error: the worker spawns an actor for it with a fetched cookie.
C20_NoCookieStillSpawns == pc # "rejected"

C10_Witness ==
    \E h \in Holders :
        LET c == borrows[h].cookie
        IN /\ c \in QueryCookies
           /\ Cardinality(QueuePositions(c)) + Cardinality(HoldersOf(c)) = 1
           /\ Contents(available_cookies, c.domain) # <<>>

====
